---- MODULE Spec2Model ----
(***************************************************************************)
(* Model of the swft compliance store: the version registry, the catalog,  *)
(* baseline and policy-initiative importers, the content pinner and the    *)
(* PostgreSQL transactions they run in.                                    *)
(*                                                                         *)
(* Free text (names, titles, version labels, file-name parts) is a         *)
(* sequence of one-character strings, so that slugify and the pinned file  *)
(* name are computed character by character.  Python's None and the empty  *)
(* string are both the empty sequence: every test the code makes on these  *)
(* values (`or`, `not`) treats them alike.  Identifiers that are only      *)
(* compared (control ids, policy definition ids, kinds, scopes) are        *)
(* strings.                                                                *)
(***************************************************************************)
EXTENDS Integers, Sequences, FiniteSets, TLC

VARIABLES
    db,     \* committed rows of every table: [table name -> set of rows]
    seq,    \* the id sequences of the tables (never rolled back)
    fs,     \* the pinned directory tree: [path -> content]
    tx,     \* per connection, the uncommitted row deletions and insertions
    pc,     \* per caller, the statement it executes next
    loc,    \* per caller, the local variables of the running call
    ret     \* per caller, the outcome of its last finished call

vars == <<db, seq, fs, tx, pc, loc, ret>>

-----------------------------------------------------------------------------
(* Bounds *)

MaxId == 3           \* largest id a table's sequence hands out

\* the callers, one connection each
Procs == {1, 2}

-----------------------------------------------------------------------------
(* Text helpers *)

None == <<>>

\* Python `a or b`
Or(a, b) == IF a # None THEN a ELSE b

LowerAlnum == {"a", "b", "c", "n", "p", "x", "0", "1", "2", "5"}
Upper      == {"A", "B", "C", "N", "P", "X"}

lower(c) ==
    CASE c = "A" -> "a" [] c = "B" -> "b" [] c = "C" -> "c"
      [] c = "N" -> "n" [] c = "P" -> "p" [] c = "X" -> "x"
      [] OTHER -> c

Lower(s) == [i \in 1..Len(s) |-> lower(s[i])]

\* re.sub(r"[^a-z0-9]+", "-", s): every maximal run of other characters
\* becomes one "-"
RECURSIVE SubRuns(_, _)
SubRuns(s, inRun) ==
    IF s = <<>> THEN <<>>
    ELSE IF Head(s) \in LowerAlnum THEN <<Head(s)>> \o SubRuns(Tail(s), FALSE)
    ELSE IF inRun THEN SubRuns(Tail(s), TRUE)
    ELSE <<"-">> \o SubRuns(Tail(s), TRUE)

\* str.strip("-")
RECURSIVE StripLeft(_)
StripLeft(s) == IF s # <<>> /\ Head(s) = "-" THEN StripLeft(Tail(s)) ELSE s

RECURSIVE StripRight(_)
StripRight(s) ==
    IF s # <<>> /\ s[Len(s)] = "-" THEN StripRight(SubSeq(s, 1, Len(s) - 1)) ELSE s

slugify(value, default) ==
    IF value = None THEN default
    ELSE LET slug == StripRight(StripLeft(SubRuns(Lower(value), FALSE)))
         IN  Or(slug, default)

-----------------------------------------------------------------------------
(* Source documents.  A source file is [bytes, suffixes]; `bytes` names    *)
(* its content and Json(bytes) is the JSON value the content decodes to    *)
(* (objects are records, arrays are sequences; a key's "-" is written "_";  *)
(* the value of metadata.version, which the code type-tests, is            *)
(* [str |-> s] for a JSON string s and an object otherwise).               *)

Get(obj, key, default) == IF key \in DOMAIN obj THEN obj[key] ELSE default

s_n1    == <<"n", "1">>
s_n2    == <<"n", "2">>
s_v5    == <<"5">>
s_v51   == <<"5", ".", "1">>
s_title == <<"C", "a", "t", " ", "A">>
s_pin   == <<"P", "-", "x">>
s_json  == <<".", "j", "s", "o", "n">>
s_txt   == <<".", "t", "x", "t">>

Json(bytes) ==
    CASE bytes = "cA" ->
           [catalog |-> [
              metadata |-> [title |-> s_title, version |-> [str |-> s_v5]],
              groups |-> <<[title |-> <<"A", "C">>,
                            controls |-> <<[id |-> "AC-1", title |-> <<"P">>,
                                            params |-> <<[id |-> "ac-1_prm_1"]>>,
                                            parts |-> <<[name |-> "statement"],
                                                        [name |-> "x", class |-> "assessment"]>>,
                                            controls |-> <<[id |-> "AC-1.1"]>>]>>]>>]]
      [] bytes = "cB" ->
           [catalog |-> [
              metadata |-> [title |-> s_title,
                            props |-> <<[name |-> "version", value |-> s_v51]>>],
              controls |-> <<[id |-> "AC-1", title |-> <<"X">>]>>]]
      [] bytes = "cDeep" ->
           [catalog |-> [
              metadata |-> [title |-> s_title],
              controls |-> <<[id |-> "AC-3"]>>,
              groups |-> <<[id |-> <<"a", "c">>, title |-> <<"A", "C">>,
                            controls |-> <<[id |-> "AC-1",
                                            controls |-> <<[id |-> "AC-1.1"]>>]>>,
                            groups |-> <<[controls |-> <<[id |-> "AC-2"]>>,
                                          groups |-> <<[title |-> <<"S">>,
                                                        controls |-> <<[id |-> "AC-2.1"]>>]>>]>>]>>]]
      [] bytes = "cSub" ->
           [catalog |-> [
              metadata |-> [title |-> s_title],
              groups |-> <<[id |-> <<"a", "c">>, title |-> <<"A", "C">>,
                            groups |-> <<[id |-> <<"a", "c", ".", "1">>,
                                          controls |-> <<[id |-> "AC-1"]>>]>>]>>]]
      [] bytes = "cNoKey" -> [profile |-> [metadata |-> [title |-> s_title]]]
      [] bytes = "cNoId" ->
           [catalog |-> [
              metadata |-> [title |-> s_title],
              controls |-> <<[id |-> "AC-2"], [title |-> <<"X">>]>>]]
      [] bytes = "pA" ->
           [profile |-> [
              metadata |-> [version |-> [text |-> s_v5]],
              imports |-> <<[href |-> "#cat",
                             include_controls |-> <<[with_ids |-> <<"AC-2", "AC-1">>]>>]>>]]
      [] bytes = "pB" ->
           [profile |-> [
              metadata |-> [oscal_version |-> s_v51],
              controls |-> <<[id |-> "AC-1"], [title |-> <<"X">>]>>]]
      [] bytes = "pDup" ->
           [profile |-> [
              imports |-> <<[include_controls |-> <<[with_ids |-> <<"AC-2", "AC-1.1">>]>>],
                            [href |-> "#cat"],
                            [include_controls |-> <<[with_ids |-> <<"AC-2">>],
                                                    [with_ids |-> <<>>]>>]>>,
              controls |-> <<[id |-> "AC-1"]>>]]
      [] bytes = "pNone" ->
           [profile |-> [
              imports |-> <<[include_controls |-> <<[with_ids |-> <<>>]>>]>>,
              controls |-> <<[title |-> <<"X">>]>>]]
      [] bytes = "pNoKey" -> [catalog |-> [metadata |-> [title |-> s_title]]]
      [] bytes = "pEmpty" -> [profile |-> [imports |-> <<[href |-> "#cat"]>>]]
      [] bytes = "pMatch" ->
           [profile |-> [
              imports |-> <<[include_controls |->
                               <<[with_ids |-> <<"AC-1">>,
                                  matching |-> <<[pattern |-> "ac-*"]>>]>>]>>]]
      [] bytes = "pMatch2" ->
           [profile |-> [
              imports |-> <<[include_controls |->
                               <<[with_ids |-> <<"AC-1", "AC-2">>],
                                 [matching |-> <<[pattern |-> "ac-*"]>>]>>]>>]]
      [] bytes = "pMatch3" ->
           [profile |-> [
              imports |-> <<[include_controls |-> <<[with_ids |-> <<"AC-1">>]>>],
                            [include_controls |-> <<[matching |-> <<[pattern |-> "ac-*"]>>]>>]>>,
              controls |-> <<[id |-> "AC-3"]>>]]
      [] bytes = "pMatch4" ->
           [profile |-> [
              imports |-> <<[include_controls |-> <<[matching |-> <<[pattern |-> "ac-*"]>>]>>]>>]]
      [] bytes = "iA" ->
           [name |-> s_n1,
            properties |-> [
              metadata |-> [version |-> s_v5, category |-> <<"C">>],
              policyDefinitions |-> <<
                 [policyDefinitionId |-> "pd1",
                  policyDefinitionReferenceId |-> <<"A">>,
                  metadata |-> [compliance |-> [complianceControlIds |-> <<"ac-1", " ac-2 ">>]]],
                 [policyDefinitionReferenceId |-> <<"B">>]>>]]
      [] bytes = "iB" ->
           [properties |-> [
              policyDefinitions |-> <<
                 [policyDefinitionId |-> "pd1", displayName |-> <<"N">>,
                  metadata |-> [category |-> <<"X">>, nistControlIds |-> <<"AC-1">>]],
                 [policyDefinitionId |-> "pd2"]>>]]
      [] bytes = "s1" ->
           [bomFormat |-> "CycloneDX",
            components |-> <<
               [name |-> <<"a">>, version |-> <<"1">>,
                licenses |-> <<[license |-> [id |-> <<"M">>]],
                               [license |-> [str |-> <<"G">>]],
                               [str |-> <<"X">>],
                               [name |-> <<"L">>]>>],
               [name |-> <<"a">>, version |-> <<"1">>,
                licenses |-> <<[license |-> [id |-> <<"M">>]],
                               [license |-> [str |-> <<"G">>]],
                               [str |-> <<"X">>],
                               [name |-> <<"L">>]>>]>>]
      [] bytes = "s2" ->
           [bomFormat |-> "CycloneDX", components |-> <<[purl |-> <<"p">>]>>]
      [] bytes = "s0" -> [bomFormat |-> "CycloneDX"]
      [] bytes = "t1" ->
           [Results |-> <<
               [Target |-> <<"i">>,
                Vulnerabilities |-> <<[VulnerabilityID |-> "CVE-1", Severity |-> "HIGH",
                                       PkgName |-> <<"k">>, InstalledVersion |-> <<"1">>,
                                       FixedVersion |-> <<"2">>, PkgPath |-> <<"/">>,
                                       PrimaryURL |-> <<"u">>]>>],
               [Vulnerabilities |-> <<[VulnerabilityID |-> "CVE-2", PrimaryURL |-> <<"u">>]>>],
               [Target |-> <<"j">>]>>]
      [] bytes = "g1" -> [critical |-> [identity |-> <<"d">>]]
      [] bytes = "q1" ->
           [value |-> <<
               [policyDefinitionId |-> "pd1", policyAssignmentId |-> "as1",
                resourceId |-> "r1", complianceState |-> "Compliant",
                timestamp |-> "T1Z"],
               [policyDefinition |-> "pd9", policyAssignmentId |-> "as1",
                resourceUri |-> "r1", state |-> "Compliant", evaluatedTime |-> "T1"],
               [policyDefinitionId |-> "pd1", policyAssignmentId |-> "as1",
                complianceState |-> "Compliant", timestamp |-> "T1"],
               [policyDefinitionId |-> "pd1", policyAssignmentId |-> "as1",
                resourceUri |-> "r1", state |-> "NonCompliant",
                lastEvaluatedOn |-> "T2"]>>]
      [] bytes = "q2" ->
           <<[policyDefinitionId |-> "pd1", policyAssignmentId |-> "as1",
              resourceId |-> "r1", complianceState |-> "Compliant",
              timestamp |-> "T1"]>>
      [] bytes = "q3" ->
           [states |-> <<[policyDefinitionId |-> "pd1", policyAssignmentId |-> "as1",
                          resourceId |-> "r1", complianceState |-> "NonCompliant",
                          timestamp |-> "soon"]>>]
      [] bytes = "q4" -> [str |-> "states"]
      [] bytes = "q5" -> [count |-> "0"]
      [] OTHER -> [other |-> TRUE]

CatalogBytes    == {"cA", "cB", "cNoKey", "cNoId"}
ProfileBytes    == {"pA", "pB", "pNoKey", "pEmpty", "pMatch"}
InitiativeBytes == {"iA", "iB"}

\* An exception: the Python class and what its message names.
Exc(type, what, detail) == [ok |-> FALSE, type |-> type, what |-> what, detail |-> detail]
Ok(value) == [ok |-> TRUE, value |-> value]

-----------------------------------------------------------------------------
(* oscal/catalog.py *)

EmptyObj == <<>>

_extract_version(metadata) ==
    LET value == Get(metadata, "version", EmptyObj)
        props == Get(metadata, "props", <<>>)
        hits  == {i \in 1..Len(props) : Get(props[i], "name", "") = "version"}
        first == CHOOSE i \in hits : \A j \in hits : i <= j
    IN  IF "version" \in DOMAIN metadata /\ "str" \notin DOMAIN value
           THEN Or(Get(value, "text", None), Get(value, "value", None))
        ELSE IF "version" \in DOMAIN metadata THEN value.str
        ELSE IF hits # {} THEN Get(props[first], "value", None)
        ELSE None

ObjectiveNames == {"assessment-objectives", "assessment-objective", "objective"}

IsObjective(part) ==
    \/ Get(part, "name", "") \in ObjectiveNames
    \/ Get(part, "class", "") = "assessment"
    \/ \E i \in 1..Len(Get(part, "props", <<>>)) :
          Get(part.props[i], "name", "") = "assessment-objective"

_extract_assessment_objectives(control) ==
    SelectSeq(Get(control, "parts", <<>>), IsObjective)

\* A CatalogControl, or the ValueError of a node without id.
_control_from_node(control, family) ==
    IF Get(control, "id", "") = ""
       THEN Exc("ValueError", "control without id", None)
       ELSE Ok([control_id            |-> control.id,
                family                |-> family,
                title                 |-> Get(control, "title", None),
                parameters            |-> Get(control, "params", <<>>),
                assessment_objectives |-> _extract_assessment_objectives(control)])

RECURSIVE _iter_control_tree(_, _)
RECURSIVE IterControlList(_, _)
\* the nodes of a list of controls, each followed by its descendants
IterControlList(controls, family) ==
    IF controls = <<>> THEN <<>>
    ELSE _iter_control_tree(Head(controls), family) \o IterControlList(Tail(controls), family)

_iter_control_tree(control, family) ==
    <<_control_from_node(control, family)>>
        \o IterControlList(Get(control, "controls", <<>>), family)

RECURSIVE _iter_group(_, _)
RECURSIVE IterGroupList(_, _, _)
IterGroupList(groups, family, top) ==
    IF groups = <<>> THEN <<>>
    ELSE LET g   == Head(groups)
             own == Or(Get(g, "title", None), Get(g, "id", None))
             fam == IF top THEN own ELSE Or(own, family)
         IN  _iter_group(g, fam) \o IterGroupList(Tail(groups), family, top)

_iter_group(group, family) ==
    IterControlList(Get(group, "controls", <<>>), family)
        \o IterGroupList(Get(group, "groups", <<>>), family, FALSE)

_iter_controls(catalog) ==
    IterControlList(Get(catalog, "controls", <<>>), None)
        \o IterGroupList(Get(catalog, "groups", <<>>), None, TRUE)

Values(results) == [i \in 1..Len(results) |-> results[i].value]

\* the first exception a generator raises ends list(...)
FirstError(results) ==
    LET bad == {i \in 1..Len(results) : ~results[i].ok}
    IN  results[CHOOSE i \in bad : \A j \in bad : i <= j]

load_catalog(bytes) ==
    LET data     == Json(bytes)
        catalog  == data.catalog
        metadata == Get(catalog, "metadata", EmptyObj)
        meta     == [title         |-> Get(metadata, "title", None),
                     version       |-> _extract_version(metadata),
                     oscal_version |-> Get(metadata, "oscal_version", None)]
        nodes    == _iter_controls(catalog)
    IN  IF "catalog" \notin DOMAIN data
           THEN Exc("ValueError", "no top-level catalog", None)
        ELSE IF \E i \in 1..Len(nodes) : ~nodes[i].ok THEN FirstError(nodes)
        ELSE Ok([metadata |-> meta, controls |-> Values(nodes)])

-----------------------------------------------------------------------------
(* oscal/profile.py *)

\* the control ids of the model in ascending lexicographic order
IdOrder == <<"AC-1", "AC-1.1", "AC-2">>

Rank(id) == CHOOSE i \in 1..Len(IdOrder) : IdOrder[i] = id

RECURSIVE sorted(_)
sorted(ids) ==
    IF ids = {} THEN <<>>
    ELSE LET least == CHOOSE a \in ids : \A b \in ids : Rank(a) <= Rank(b)
         IN  <<least>> \o sorted(ids \ {least})

Range(s) == {s[i] : i \in 1..Len(s)}

\* all include-controls entries of all imports, in document order
RECURSIVE Includes(_)
Includes(imports) ==
    IF imports = <<>> THEN <<>>
    ELSE Get(Head(imports), "include_controls", <<>>) \o Includes(Tail(imports))

\* the loop over the include entries: the ids gathered, or the
\* NotImplementedError of the first entry with a `matching` selector
RECURSIVE CollectIncludes(_, _)
CollectIncludes(includes, ids) ==
    IF includes = <<>> THEN Ok(ids)
    ELSE LET include == Head(includes)
             more    == ids \cup Range(Get(include, "with_ids", <<>>))
         IN  IF "matching" \in DOMAIN include
                THEN Exc("NotImplementedError", "matching not supported", None)
                ELSE CollectIncludes(Tail(includes), more)

\* the top-level controls added to the ids of the imports
_collect_control_ids_merges(profile) ==
    LET got      == CollectIncludes(Includes(Get(profile, "imports", <<>>)), {})
        controls == Get(profile, "controls", <<>>)
        listed   == {Get(controls[i], "id", "") : i \in 1..Len(controls)} \ {""}
    IN  IF ~got.ok THEN got
        ELSE Ok(got.value \cup listed)

\* lines 55-71
_collect_control_ids(profile) ==
    LET got      == CollectIncludes(Includes(Get(profile, "imports", <<>>)), {})
        controls == Get(profile, "controls", <<>>)
        listed   == {Get(controls[i], "id", "") : i \in 1..Len(controls)} \ {""}
    IN  IF ~got.ok THEN got
        ELSE IF got.value # {} THEN got
        ELSE Ok(listed)

load_profile(bytes) ==
    LET data     == Json(bytes)
        profile  == data.profile
        metadata == Get(profile, "metadata", EmptyObj)
        meta     == [title         |-> Get(metadata, "title", None),
                     version       |-> _extract_version(metadata),
                     oscal_version |-> Get(metadata, "oscal_version", None)]
        ids      == _collect_control_ids(profile)
    IN  IF "profile" \notin DOMAIN data
           THEN Exc("ValueError", "no top-level profile", None)
        ELSE IF ~ids.ok THEN ids
        ELSE IF ids.value = {} THEN Exc("ValueError", "no control identifiers", None)
        ELSE Ok([metadata |-> meta, control_ids |-> sorted(ids.value)])

-----------------------------------------------------------------------------
(* importers/azure/parser.py *)

\* cid.strip().upper() on the identifiers of the model
StripUpper(cid) ==
    CASE cid = "ac-1" -> "AC-1" [] cid = " ac-2 " -> "AC-2" [] OTHER -> cid

_extract_control_ids(entry) ==
    LET metadata   == Get(entry, "metadata", EmptyObj)
        compliance == Get(metadata, "compliance", EmptyObj)
        listed     == Get(compliance, "complianceControlIds", <<>>)
        ids        == IF listed # <<>> THEN listed ELSE Get(metadata, "nistControlIds", <<>>)
    IN  [i \in 1..Len(ids) |-> StripUpper(ids[i])]

InitiativePolicyOf(entry, properties, metadata) ==
    [policy_definition_id |-> entry.policyDefinitionId,
     reference_id  |-> Get(entry, "policyDefinitionReferenceId", None),
     display_name  |-> Or(Get(entry, "displayName", None),
                          Get(entry, "policyDefinitionReferenceId", None)),
     category      |-> Or(Get(Get(entry, "metadata", EmptyObj), "category", None),
                          Or(Get(metadata, "category", None),
                             Get(properties, "category", None))),
     control_ids   |-> _extract_control_ids(entry)]

RECURSIVE PoliciesOf(_, _, _)
PoliciesOf(entries, properties, metadata) ==
    IF entries = <<>> THEN <<>>
    ELSE (IF Get(Head(entries), "policyDefinitionId", "") = "" THEN <<>>
          ELSE <<InitiativePolicyOf(Head(entries), properties, metadata)>>)
         \o PoliciesOf(Tail(entries), properties, metadata)

load_initiative(bytes) ==
    LET data       == Json(bytes)
        properties == Get(data, "properties", EmptyObj)
        metadata   == Get(properties, "metadata", EmptyObj)
    IN  Ok([name     |-> Or(Get(data, "name", None), Get(properties, "displayName", None)),
            version  |-> Or(Get(metadata, "version", None), Get(properties, "version", None)),
            policies |-> PoliciesOf(Get(properties, "policyDefinitions", <<>>),
                                    properties, metadata)])

-----------------------------------------------------------------------------
(* evidence/parsers.py, evidence/signatures.py *)

\* utils/json.py loads: the contents that are JSON documents
IsJson(bytes) == bytes # "bad"

\* isinstance(v, str) on a JSON value
IsStr(v) == "str" \in DOMAIN v

\* one entry of component["licenses"]: the license names it contributes
LicenseOf(entry) ==
    IF IsStr(entry) THEN <<>>
    ELSE LET lic == Or(Get(entry, "license", None), entry)
         IN  IF IsStr(lic) THEN <<lic.str>>
             ELSE LET value == Or(Or(Get(lic, "id", None), Get(lic, "name", None)),
                                  Get(lic, "text", None))
                  IN  IF value # None THEN <<value>> ELSE <<>>

RECURSIVE LicensesOf(_)
LicensesOf(entries) ==
    IF entries = <<>> THEN <<>>
    ELSE LicenseOf(Head(entries)) \o LicensesOf(Tail(entries))

_extract_licenses(component) == LicensesOf(Get(component, "licenses", <<>>))

SbomComponent(component) ==
    [name |-> Get(component, "name", None),
     version |-> Get(component, "version", None),
     purl |-> Get(component, "purl", None),
     licenses |-> _extract_licenses(component)]

parse_cyclonedx(bytes) ==
    IF ~IsJson(bytes) THEN Exc("ValueError", "invalid json", None)
    ELSE LET components == Get(Json(bytes), "components", <<>>)
         IN  Ok([i \in 1..Len(components) |-> SbomComponent(components[i])])

TrivyFinding(vuln, artifact) ==
    [cve_id |-> Get(vuln, "VulnerabilityID", ""),
     severity |-> Get(vuln, "Severity", ""),
     pkg |-> Get(vuln, "PkgName", None),
     installed_version |-> Get(vuln, "InstalledVersion", None),
     fixed_version |-> Get(vuln, "FixedVersion", None),
     artifact |-> artifact,
     path |-> Or(Get(vuln, "PkgPath", None), Get(vuln, "PrimaryURL", None))]

\* the findings of one entry of Results
FindingsOf(result) ==
    LET vulns == Get(result, "Vulnerabilities", <<>>)
    IN  [i \in 1..Len(vulns) |-> TrivyFinding(vulns[i], Get(result, "Target", None))]

RECURSIVE FindingsOfAll(_)
FindingsOfAll(results) ==
    IF results = <<>> THEN <<>>
    ELSE FindingsOf(Head(results)) \o FindingsOfAll(Tail(results))

parse_trivy_report(bytes) ==
    IF ~IsJson(bytes) THEN Exc("ValueError", "invalid json", None)
    ELSE Ok(FindingsOfAll(Get(Json(bytes), "Results", <<>>)))

parse_signature_file(bytes) ==
    IF ~IsJson(bytes) THEN Exc("ValueError", "invalid json", None)
    ELSE Ok(Json(bytes))

\* ", ".join(licenses)
RECURSIVE Join(_)
Join(texts) ==
    IF texts = <<>> THEN <<>>
    ELSE IF Len(texts) = 1 THEN texts[1]
    ELSE texts[1] \o <<",", " ">> \o Join(Tail(texts))

-----------------------------------------------------------------------------
(* store/digests.py, store/files.py *)

\* directories under config.paths.pinned and config.paths.store
CatalogsDir    == <<"pinned", "/", "catalogs">>
BaselinesDir   == <<"pinned", "/", "baselines">>
InitiativesDir == <<"pinned", "/", "policy_initiatives">>

\* SHA-256 of a content, as <<first 12 hex digits, the other 52>>.  Distinct
\* contents of the model have distinct digests; x1 and x2 are two contents
\* whose digests begin with the same 12 hex digits.
compute_sha256(bytes) ==
    CASE bytes = "cA" -> <<"#1", "a">>
      [] bytes = "cB" -> <<"#2", "b">>
      [] bytes = "cNoKey" -> <<"#3", "c">>
      [] bytes = "cNoId" -> <<"#4", "d">>
      [] bytes = "pA" -> <<"#5", "e">>
      [] bytes = "pB" -> <<"#6", "f">>
      [] bytes = "pNoKey" -> <<"#7", "g">>
      [] bytes = "pEmpty" -> <<"#8", "h">>
      [] bytes = "pMatch" -> <<"#9", "i">>
      [] bytes = "iA" -> <<"#a", "j">>
      [] bytes = "iB" -> <<"#b", "k">>
      [] bytes = "x1" -> <<"#c", "l">>
      [] bytes = "x2" -> <<"#c", "m">>
      [] bytes = "e1" -> <<"#d", "n">>
      [] bytes = "e2" -> <<"#e", "o">>
      [] OTHER -> <<"#0", bytes>>

\* the path and digest pin_source_file computes
PinTarget(source, dest_dir, stem) ==
    LET digest   == compute_sha256(source.bytes)
        ext      == Or(source.suffixes, s_json)
        filename == stem \o <<"-">> \o <<digest[1]>> \o ext
    IN  [dest |-> [dir |-> dest_dir, filename |-> filename], digest |-> digest]

\* the pinned tree after pin_source_file: the copy is skipped when the
\* destination exists
pin_source_file(files, source, dest_dir, stem) ==
    LET dest == PinTarget(source, dest_dir, stem).dest
    IN  IF dest \in DOMAIN files THEN files
        ELSE [p \in DOMAIN files \cup {dest} |->
                 IF p = dest THEN source.bytes ELSE files[p]]

-----------------------------------------------------------------------------
(* The database.  A table is a set of rows.  A connection's transaction    *)
(* (psycopg opens one at the first statement) holds the rows it deleted    *)
(* and inserted; its statements see the committed rows with its own        *)
(* changes applied (READ COMMITTED).  A statement that writes a key        *)
(* another open transaction has written waits for that transaction to end. *)

Tables == {"version_registry", "catalog_controls", "baseline_profiles",
           "baseline_controls", "policy_initiatives", "policy_definitions",
           "policy_mappings", "projects", "project_services", "project_regions",
           "runs", "evidence_files", "run_evidence", "parameter_values",
           "implemented_requirements", "sbom_components", "trivy_findings",
           "signatures", "policy_states", "swft_schema_migrations",
           "schema_changes"}

Sequences_ == {"version_registry", "baseline_profiles", "policy_initiatives",
               "projects", "runs", "evidence_files", "swft_schema_migrations"}

NoRows == [t \in Tables |-> {}]

NoTx == [del |-> NoRows, ins |-> NoRows]

View(p) == [t \in Tables |-> (db[t] \ tx[p].del[t]) \cup tx[p].ins[t]]

\* the columns of the unique index a statement of the code relies on
Key(t, r) ==
    CASE t = "version_registry"   -> <<r.kind, r.name>>
      [] t = "catalog_controls"   -> <<r.control_id>>
      [] t = "baseline_profiles"  -> <<r.profile_name>>
      [] t = "baseline_controls"  -> <<r.profile_id, r.control_id>>
      [] t = "policy_initiatives" -> <<r.initiative_id, r.scope>>
      [] t = "policy_definitions" -> <<r.policy_definition_id>>
      [] t = "policy_mappings"    -> <<r.initiative_fk, r.control_id, r.policy_definition_fk>>
      [] t = "projects"           -> <<r.project_key>>
      [] t = "project_services"   -> <<r.project_fk, r.service_name>>
      [] t = "project_regions"    -> <<r.project_fk, r.region_name>>
      [] t = "runs"               -> <<r.project_fk, r.run_id>>
      [] t = "evidence_files"     -> <<r.content_hash>>
      [] t = "run_evidence"       -> <<r.run_fk, r.evidence_fk>>
      [] t = "parameter_values"   -> <<r.project_fk, r.control_id, r.param_id>>
      [] t = "implemented_requirements" -> <<r.project_fk, r.control_id>>
      [] t = "sbom_components"    -> <<r.ctid>>
      [] t = "trivy_findings"     -> <<r.ctid>>
      [] t = "signatures"         -> <<r.evidence_fk>>
      [] t = "policy_states"      -> <<r.ctid>>
      [] t = "swft_schema_migrations" -> <<r.filename>>
      [] t = "schema_changes"     -> <<r.ctid>>

WithKey(rows, t, k) == {r \in rows : Key(t, r) = k}

\* another open transaction has written a row with key k of table t
LockedByOther(p, t, k) ==
    \E q \in Procs \ {p} : WithKey(tx[q].del[t] \cup tx[q].ins[t], t, k) # {}

\* the transaction of p after it replaced the rows `gone` of t by `new`
Written(p, t, gone, new) ==
    [tx EXCEPT ![p].del[t] = @ \cup (gone \cap db[t]),
               ![p].ins[t] = (@ \ gone) \cup new]

\* the identity of the row an INSERT of p adds to a table without a unique
\* key: the least one no row p sees and no uncommitted row has
FreshCtid(p, t) ==
    LET live == View(p)[t] \cup UNION {tx[q].ins[t] : q \in Procs}
        used == {r.ctid : r \in live}
    IN  CHOOSE n \in 1..(Cardinality(used) + 1) :
           n \notin used /\ \A m \in 1..(n - 1) : m \in used

Committed(p) == [t \in Tables |-> (db[t] \ tx[p].del[t]) \cup tx[p].ins[t]]

\* version_registry without the constraint
version_registry_not_unique == FALSE

\* UNIQUE (kind, name) on version_registry
version_registry_unique == TRUE

\* UNIQUE (initiative_id, scope) on policy_initiatives
policy_initiatives_unique == TRUE

-----------------------------------------------------------------------------
(* Callers *)

NoCall == [op |-> "none"]

Locals(op, args) ==
    [op |-> op, args |-> args,
     document |-> EmptyObj, slug |-> None, pinned_path |-> EmptyObj, digest |-> None,
     ev |-> EmptyObj, row |-> EmptyObj, version |-> EmptyObj,
     i |-> 0, j |-> 0, fk |-> 0, policy_count |-> 0, mapping_count |-> 0,
     evidence_id |-> 0, control_ids |-> <<>>, inserted |-> 0,
     existing |-> {}, applied |-> <<>>]

Idle(p) == pc[p] = "idle"

InFlight == {q \in Procs : ~Idle(q)}

\* a call starts only while every sequence can still serve every caller
Room ==
    \A t \in Sequences_ \ {"swft_schema_migrations"} :
       seq[t] + Cardinality(InFlight) < MaxId

\* the call of p ends with `result`; an open transaction is rolled back
\* (the exception leaves `with psycopg.connect(...)`)
Finish(p, result) ==
    /\ pc'  = [pc EXCEPT ![p] = "idle"]
    /\ ret' = [ret EXCEPT ![p] = [call |-> [op |-> loc[p].op, args |-> loc[p].args],
                                  result |-> result]]
    /\ loc' = [loc EXCEPT ![p] = NoCall]
    /\ tx'  = [tx EXCEPT ![p] = NoTx]

\* the statements executed so far are kept (an autocommit connection)
Raise_keeps(p, exc) ==
    /\ db' = [t \in Tables |-> (db[t] \ tx[p].del[t]) \cup tx[p].ins[t]]
    /\ Finish(p, exc)
    /\ UNCHANGED <<seq, fs>>

Raise(p, exc) == Finish(p, exc) /\ UNCHANGED <<db, seq, fs>>

Goto(p, label, locals) ==
    /\ pc'  = [pc EXCEPT ![p] = label]
    /\ loc' = [loc EXCEPT ![p] = locals]
    /\ UNCHANGED ret

\* the first statement of the transaction of a call
FirstStatement(l) ==
    CASE l.op \in {"upsert_project", "create_project"} -> "proj_insert"
      [] l.op = "ingest_file" -> "run_insert"
      [] l.op \in {"sbom", "trivy", "signature"} ->
           IF l.evidence_id = 0 THEN "run_insert"
           ELSE IF l.op = "sbom" THEN "sbom_delete"
           ELSE IF l.op = "trivy" THEN "trivy_delete" ELSE "sig_upsert"
      [] l.op \in {"set_param", "set_parameter"} -> "param_upsert"
      [] l.op = "policy_states" -> "pst_fetch"
      [] l.op = "migrate" -> "mig_select"
      [] OTHER -> "ev_select"

\* store/db.py get_connection followed by SET search_path
Connect(p) ==
    /\ pc[p] = "connect"
    /\ Goto(p, FirstStatement(loc[p]), loc[p])
    /\ UNCHANGED <<db, seq, fs, tx>>

InTx == {"ev_select", "ev_update", "ev_insert", "cat_upsert",
         "prof_profile", "prof_delete", "prof_insert",
         "pol_select", "pol_update", "pol_insert", "pol_delete",
         "pol_definition", "pol_mapping",
         "proj_insert", "coll_delete", "coll_insert",
         "run_insert", "run_select", "evi_upsert", "evi_link", "evi_commit",
         "sbom_delete", "sbom_insert", "trivy_delete", "trivy_insert", "sig_upsert",
         "param_upsert", "param_requirement", "svc_exit", "commit",
         "pst_fetch", "pst_controls", "pst_delete", "pst_insert",
         "mig_select", "mig_execute", "mig_record"}

\* a statement (or the commit) fails in the database
StatementFails(p) ==
    /\ pc[p] \in InTx \cup {"connect"}
    /\ Raise(p, Exc("OperationalError", "statement failed", None))

-----------------------------------------------------------------------------
(* store/versioning.py *)

VersionRecord(id, kind, name, version, content_hash, source_uri) ==
    [id |-> id, kind |-> kind, name |-> name, version |-> version,
     content_hash |-> content_hash, source_uri |-> source_uri]

\* the record ensure_version returns for a row that already exists
ExistingVersionRecord(row, a) ==
    VersionRecord(row.id, a.kind, a.name, row.version, row.content_hash, row.source_uri)

\* where the caller of ensure_version continues
AfterEnsure(l) ==
    CASE l.op = "ensure_version" -> "commit"
      [] l.op = "catalog" -> IF l.document.controls = <<>> THEN "commit" ELSE "cat_upsert"
      [] l.op = "baseline" -> "prof_profile"
      [] l.op = "policy_initiative" -> "pol_select"

\* the comparison left out
HashDiffers_never(row, a) == FALSE

\* the comparison inverted
HashDiffers_inverted(row, a) == row.content_hash = a.content_hash

\* line 39: existing_hash != content_hash
HashDiffers(row, a) == row.content_hash # a.content_hash

\* lines 32-57: the SELECT and the branch on the row it returns
ensure_version_select(p) ==
    /\ pc[p] = "ev_select"
    /\ LET a    == loc[p].ev
           rows == {r \in View(p).version_registry : r.kind = a.kind /\ r.name = a.name}
       IN  IF rows = {}
              THEN /\ Goto(p, "ev_insert", loc[p])
                   /\ UNCHANGED <<db, seq, fs, tx>>
              ELSE \E row \in rows :
                     IF HashDiffers(row, a)
                        THEN Raise(p, Exc("ValueError", "already exists with hash",
                                          row.content_hash))
                     ELSE IF row.version # a.version \/ row.source_uri # a.source_uri
                        THEN /\ Goto(p, "ev_update", [loc[p] EXCEPT !.row = row])
                             /\ UNCHANGED <<db, seq, fs, tx>>
                     ELSE /\ Goto(p, AfterEnsure(loc[p]),
                                  [loc[p] EXCEPT !.row = row,
                                                 !.version = ExistingVersionRecord(row, a),
                                                 !.i = 1])
                          /\ UNCHANGED <<db, seq, fs, tx>>

\* the label change written as a DELETE of the row
ensure_version_update_deletes(p) ==
    /\ pc[p] = "ev_update"
    /\ LET a    == loc[p].ev
           row  == loc[p].row
           hit  == {r \in View(p).version_registry : r.id = row.id}
       IN  /\ \A r \in hit : ~LockedByOther(p, "version_registry", Key("version_registry", r))
           /\ tx' = Written(p, "version_registry", hit, {})
           /\ pc' = [pc EXCEPT ![p] = AfterEnsure(loc[p])]
           /\ loc' = [loc EXCEPT ![p].version = ExistingVersionRecord(row, a), ![p].i = 1]
           /\ UNCHANGED <<db, seq, fs, ret>>

\* lines 45-57: the UPDATE of version and source_uri, and the return
ensure_version_update(p) ==
    /\ pc[p] = "ev_update"
    /\ LET a    == loc[p].ev
           row  == loc[p].row
           hit  == {r \in View(p).version_registry : r.id = row.id}
           new  == {[r EXCEPT !.version = a.version, !.source_uri = a.source_uri] : r \in hit}
       IN  /\ \A r \in hit : ~LockedByOther(p, "version_registry", Key("version_registry", r))
           /\ tx' = Written(p, "version_registry", hit, new)
           /\ pc' = [pc EXCEPT ![p] = AfterEnsure(loc[p])]
           /\ loc' = [loc EXCEPT ![p].version = ExistingVersionRecord(row, a), ![p].i = 1]
           /\ UNCHANGED <<db, seq, fs, ret>>

\* the INSERT with the version and content_hash parameters exchanged
ensure_version_insert_swapped(p) ==
    /\ pc[p] = "ev_insert"
    /\ LET a      == loc[p].ev
           k      == <<a.kind, a.name>>
           new_id == seq.version_registry + 1
           record == VersionRecord(new_id, a.kind, a.name, a.content_hash,
                                   a.version, a.source_uri)
       IN  /\ version_registry_unique => ~LockedByOther(p, "version_registry", k)
           /\ IF version_registry_unique /\ WithKey(View(p).version_registry, "version_registry", k) # {}
                 THEN Raise(p, Exc("UniqueViolation", "version_registry", None))
                 ELSE /\ seq' = [seq EXCEPT !.version_registry = new_id]
                      /\ tx' = Written(p, "version_registry", {}, {record})
                      /\ Goto(p, AfterEnsure(loc[p]),
                              [loc[p] EXCEPT !.version = record, !.i = 1])
                      /\ UNCHANGED <<db, fs>>

\* lines 58-74: the INSERT ... RETURNING id, and the return
ensure_version_insert(p) ==
    /\ pc[p] = "ev_insert"
    /\ LET a      == loc[p].ev
           k      == <<a.kind, a.name>>
           new_id == seq.version_registry + 1
           record == VersionRecord(new_id, a.kind, a.name, a.version,
                                   a.content_hash, a.source_uri)
       IN  /\ version_registry_unique => ~LockedByOther(p, "version_registry", k)
           /\ IF version_registry_unique /\ WithKey(View(p).version_registry, "version_registry", k) # {}
                 THEN Raise(p, Exc("UniqueViolation", "version_registry", None))
                 ELSE /\ seq' = [seq EXCEPT !.version_registry = new_id]
                      /\ tx' = Written(p, "version_registry", {}, {record})
                      /\ Goto(p, AfterEnsure(loc[p]),
                              [loc[p] EXCEPT !.version = record, !.i = 1])
                      /\ UNCHANGED <<db, fs>>

\* a caller that runs ensure_version in a transaction of its own
CallEnsureVersion(p, keys, labels, hashes, uris) ==
    /\ Idle(p) /\ Room
    /\ \E k \in keys, version \in labels, content_hash \in hashes, source_uri \in uris :
         LET a == [kind |-> k[1], name |-> k[2], version |-> version,
                   content_hash |-> content_hash, source_uri |-> source_uri]
         IN  Goto(p, "connect", [Locals("ensure_version", a) EXCEPT !.ev = a])
    /\ UNCHANGED <<db, seq, fs, tx>>

-----------------------------------------------------------------------------
(* importers/oscal/catalog_importer.py *)

CatalogControlRow(control, version_id) ==
    [control_id |-> control.control_id,
     family |-> control.family,
     title |-> control.title,
     parameters_json |-> control.parameters,
     assessment_objectives_json |-> control.assessment_objectives,
     catalog_version_ref |-> version_id]

\* line 29: ingest(catalog_path, name=..., pinned_name=...)
CatalogIngest(p, names, sources, pinned_names) ==
    /\ Idle(p) /\ Room
    /\ \E name \in names, source \in sources, pinned_name \in pinned_names :
         Goto(p, "cat_load", Locals("catalog", [name |-> name, source |-> source,
                                                pinned_name |-> pinned_name]))
    /\ UNCHANGED <<db, seq, fs, tx>>

\* the file pinned before it is parsed
CatalogIngest_load_pinned_first(p) ==
    /\ pc[p] = "cat_load"
    /\ LET a        == loc[p].args
           document == load_catalog(a.source.bytes)
       IN  IF ~document.ok
              THEN /\ fs' = pin_source_file(fs, a.source, CatalogsDir, slugify(a.pinned_name, a.name))
                   /\ Finish(p, document)
                   /\ UNCHANGED <<db, seq>>
           ELSE /\ Goto(p, "cat_pin",
                        [loc[p] EXCEPT
                           !.document = document.value,
                           !.slug = slugify(Or(a.pinned_name, document.value.metadata.title),
                                            a.name)])
                /\ UNCHANGED <<db, seq, fs, tx>>

\* lines 30-31: load_catalog and slugify
CatalogIngest_load(p) ==
    /\ pc[p] = "cat_load"
    /\ LET a        == loc[p].args
           document == load_catalog(a.source.bytes)
       IN  IF ~document.ok THEN Raise(p, document)
           ELSE /\ Goto(p, "cat_pin",
                        [loc[p] EXCEPT
                           !.document = document.value,
                           !.slug = slugify(Or(a.pinned_name, document.value.metadata.title),
                                            a.name)])
                /\ UNCHANGED <<db, seq, fs, tx>>

\* lines 32-34: pin_source_file and the version label
CatalogIngest_pin(p) ==
    /\ pc[p] = "cat_pin"
    /\ LET a      == loc[p].args
           meta   == loc[p].document.metadata
           target == PinTarget(a.source, CatalogsDir, loc[p].slug)
           label  == Or(Or(meta.version, meta.oscal_version), a.name)
       IN  /\ fs' = pin_source_file(fs, a.source, CatalogsDir, loc[p].slug)
           /\ Goto(p, "connect",
                   [loc[p] EXCEPT
                      !.pinned_path = target.dest,
                      !.digest = target.digest,
                      !.ev = [kind |-> "catalog", name |-> a.name, version |-> label,
                              content_hash |-> target.digest, source_uri |-> target.dest]])
           /\ UNCHANGED <<db, seq, tx>>

\* a commit after every row of the loop
CatalogIngest_upsert_commits(p) ==
    /\ pc[p] = "cat_upsert"
    /\ LET controls == loc[p].document.controls
           control  == controls[loc[p].i]
           k        == <<control.control_id>>
           old      == WithKey(View(p).catalog_controls, "catalog_controls", k)
           row      == CatalogControlRow(control, loc[p].version.id)
           written  == Written(p, "catalog_controls", old, {row})
       IN  /\ ~LockedByOther(p, "catalog_controls", k)
           /\ db' = [t \in Tables |-> (db[t] \ written[p].del[t]) \cup written[p].ins[t]]
           /\ tx' = [tx EXCEPT ![p] = NoTx]
           /\ Goto(p, IF loc[p].i = Len(controls) THEN "commit" ELSE "cat_upsert",
                   [loc[p] EXCEPT !.i = @ + 1])
           /\ UNCHANGED <<seq, fs>>

\* the INSERT with ON CONFLICT (control_id) DO NOTHING
CatalogIngest_upsert_keeps(p) ==
    /\ pc[p] = "cat_upsert"
    /\ LET controls == loc[p].document.controls
           control  == controls[loc[p].i]
           k        == <<control.control_id>>
           old      == WithKey(View(p).catalog_controls, "catalog_controls", k)
           row      == CatalogControlRow(control, loc[p].version.id)
       IN  /\ ~LockedByOther(p, "catalog_controls", k)
           /\ tx' = IF old = {} THEN Written(p, "catalog_controls", {}, {row}) ELSE tx
           /\ Goto(p, IF loc[p].i = Len(controls) THEN "commit" ELSE "cat_upsert",
                   [loc[p] EXCEPT !.i = @ + 1])
           /\ UNCHANGED <<db, seq, fs>>

\* lines 45-72: one INSERT ... ON CONFLICT (control_id) DO UPDATE of the loop
CatalogIngest_upsert(p) ==
    /\ pc[p] = "cat_upsert"
    /\ LET controls == loc[p].document.controls
           control  == controls[loc[p].i]
           k        == <<control.control_id>>
           old      == WithKey(View(p).catalog_controls, "catalog_controls", k)
           row      == CatalogControlRow(control, loc[p].version.id)
       IN  /\ ~LockedByOther(p, "catalog_controls", k)
           /\ tx' = Written(p, "catalog_controls", old, {row})
           /\ Goto(p, IF loc[p].i = Len(controls) THEN "commit" ELSE "cat_upsert",
                   [loc[p] EXCEPT !.i = @ + 1])
           /\ UNCHANGED <<db, seq, fs>>

-----------------------------------------------------------------------------
(* importers/oscal/profile_importer.py *)

\* lines 27-33: ingest(profile_path, profile_name=..., pinned_name=...)
ProfileIngest(p, names, sources, pinned_names) ==
    /\ Idle(p) /\ Room
    /\ \E name \in names, source \in sources, pinned_name \in pinned_names :
         Goto(p, "prof_load", Locals("baseline", [name |-> name, source |-> source,
                                                  pinned_name |-> pinned_name]))
    /\ UNCHANGED <<db, seq, fs, tx>>

\* lines 34-35: load_profile and slugify
ProfileIngest_load(p) ==
    /\ pc[p] = "prof_load"
    /\ LET a        == loc[p].args
           document == load_profile(a.source.bytes)
       IN  IF ~document.ok THEN Raise(p, document)
           ELSE /\ Goto(p, "prof_pin",
                        [loc[p] EXCEPT !.document = document.value,
                                       !.slug = slugify(Or(a.pinned_name, a.name), a.name)])
                /\ UNCHANGED <<db, seq, fs, tx>>

\* lines 36-38: pin_source_file and the version label
ProfileIngest_pin(p) ==
    /\ pc[p] = "prof_pin"
    /\ LET a      == loc[p].args
           meta   == loc[p].document.metadata
           target == PinTarget(a.source, BaselinesDir, loc[p].slug)
           label  == Or(Or(meta.version, meta.oscal_version), a.name)
       IN  /\ fs' = pin_source_file(fs, a.source, BaselinesDir, loc[p].slug)
           /\ Goto(p, "connect",
                   [loc[p] EXCEPT
                      !.pinned_path = target.dest,
                      !.digest = target.digest,
                      !.ev = [kind |-> "baseline", name |-> a.name, version |-> label,
                              content_hash |-> target.digest, source_uri |-> target.dest]])
           /\ UNCHANGED <<db, seq, tx>>

\* lines 50-60: INSERT INTO baseline_profiles ... ON CONFLICT (profile_name)
\* DO UPDATE ... RETURNING id
ProfileIngest_profile(p) ==
    /\ pc[p] = "prof_profile"
    /\ LET a      == loc[p].args
           k      == <<a.name>>
           old    == WithKey(View(p).baseline_profiles, "baseline_profiles", k)
           new_id == seq.baseline_profiles + 1
       IN  /\ ~LockedByOther(p, "baseline_profiles", k)
           /\ IF old = {}
                 THEN /\ seq' = [seq EXCEPT !.baseline_profiles = new_id]
                      /\ tx' = Written(p, "baseline_profiles", {},
                                       {[id |-> new_id, profile_name |-> a.name,
                                         profile_version_ref |-> loc[p].version.id]})
                      /\ Goto(p, "prof_delete", [loc[p] EXCEPT !.fk = new_id])
                 ELSE \E row \in old :
                      /\ seq' = seq
                      /\ tx' = Written(p, "baseline_profiles", {row},
                                       {[row EXCEPT !.profile_version_ref = loc[p].version.id]})
                      /\ Goto(p, "prof_delete", [loc[p] EXCEPT !.fk = row.id])
           /\ UNCHANGED <<db, fs>>

\* the DELETE without its WHERE clause
ProfileIngest_delete_all(p) ==
    /\ pc[p] = "prof_delete"
    /\ LET old == View(p).baseline_controls
       IN  /\ \A r \in old : ~LockedByOther(p, "baseline_controls", Key("baseline_controls", r))
           /\ tx' = Written(p, "baseline_controls", old, {})
           /\ Goto(p, "prof_insert", [loc[p] EXCEPT !.i = 1])
           /\ UNCHANGED <<db, seq, fs>>

\* line 62: DELETE FROM baseline_controls WHERE profile_id = %s
ProfileIngest_delete(p) ==
    /\ pc[p] = "prof_delete"
    /\ LET old == {r \in View(p).baseline_controls : r.profile_id = loc[p].fk}
       IN  /\ \A r \in old : ~LockedByOther(p, "baseline_controls", Key("baseline_controls", r))
           /\ tx' = Written(p, "baseline_controls", old, {})
           /\ Goto(p, "prof_insert", [loc[p] EXCEPT !.i = 1])
           /\ UNCHANGED <<db, seq, fs>>

\* lines 63-71: one INSERT INTO baseline_controls ... ON CONFLICT DO NOTHING
ProfileIngest_insert(p) ==
    /\ pc[p] = "prof_insert"
    /\ LET ids == loc[p].document.control_ids
           row == [profile_id |-> loc[p].fk, control_id |-> ids[loc[p].i]]
       IN  /\ ~LockedByOther(p, "baseline_controls", Key("baseline_controls", row))
           /\ tx' = Written(p, "baseline_controls", {}, {row})
           /\ Goto(p, IF loc[p].i = Len(ids) THEN "commit" ELSE "prof_insert",
                   [loc[p] EXCEPT !.i = @ + 1])
           /\ UNCHANGED <<db, seq, fs>>

-----------------------------------------------------------------------------
(* importers/azure/policy_definition_importer.py *)

SCOPE_VALUES == {"commercial", "gov"}

\* scope.lower() on the scopes of the model
LowerScope(scope) ==
    CASE scope = "Gov" -> "gov" [] scope = "GOV" -> "gov"
      [] scope = "Commercial" -> "commercial" [] OTHER -> scope

\* lines 34-40: ingest(file_path=..., name=..., scope=...)
PolicyIngest(p, names, sources, scopes) ==
    /\ Idle(p) /\ Room
    /\ \E name \in names, source \in sources, scope \in scopes :
         Goto(p, "pol_load", Locals("policy_initiative",
                                    [name |-> name, source |-> source, scope |-> scope]))
    /\ UNCHANGED <<db, seq, fs, tx>>

\* lines 41-45: the scope check, load_initiative and slugify
PolicyIngest_load(p) ==
    /\ pc[p] = "pol_load"
    /\ LET a        == loc[p].args
           scope    == LowerScope(a.scope)
           document == load_initiative(a.source.bytes)
       IN  IF scope \notin SCOPE_VALUES
              THEN Raise(p, Exc("ValueError", "scope must be commercial or gov", None))
           ELSE IF ~document.ok THEN Raise(p, document)
           ELSE /\ Goto(p, "pol_pin",
                        [loc[p] EXCEPT !.args = [a EXCEPT !.scope = scope],
                                       !.document = document.value,
                                       !.slug = slugify(a.name, a.name)])
                /\ UNCHANGED <<db, seq, fs, tx>>

\* lines 46-48: pin_source_file and the version label
PolicyIngest_pin(p) ==
    /\ pc[p] = "pol_pin"
    /\ LET a      == loc[p].args
           target == PinTarget(a.source, InitiativesDir, loc[p].slug)
           label  == Or(loc[p].document.version, a.name)
       IN  /\ fs' = pin_source_file(fs, a.source, InitiativesDir, loc[p].slug)
           /\ Goto(p, "connect",
                   [loc[p] EXCEPT
                      !.pinned_path = target.dest,
                      !.digest = target.digest,
                      !.ev = [kind |-> "policy_initiative", name |-> a.name,
                              version |-> label, content_hash |-> target.digest,
                              source_uri |-> target.dest]])
           /\ UNCHANGED <<db, seq, tx>>

\* _ensure_initiative, lines 72-80: the SELECT by (initiative_id, scope)
_ensure_initiative_select(p) ==
    /\ pc[p] = "pol_select"
    /\ LET a    == loc[p].args
           rows == WithKey(View(p).policy_initiatives, "policy_initiatives",
                           <<a.name, a.scope>>)
       IN  IF rows = {}
              THEN Goto(p, "pol_insert", loc[p])
              ELSE \E row \in rows : Goto(p, "pol_update", [loc[p] EXCEPT !.fk = row.id])
    /\ UNCHANGED <<db, seq, fs, tx>>

\* _ensure_initiative, lines 81-86: UPDATE ... SET initiative_version_ref
_ensure_initiative_update(p) ==
    /\ pc[p] = "pol_update"
    /\ LET hit == {r \in View(p).policy_initiatives : r.id = loc[p].fk}
           new == {[r EXCEPT !.initiative_version_ref = loc[p].version.id] : r \in hit}
       IN  /\ \A r \in hit : ~LockedByOther(p, "policy_initiatives", Key("policy_initiatives", r))
           /\ tx' = Written(p, "policy_initiatives", hit, new)
    /\ Goto(p, "pol_delete", loc[p])
    /\ UNCHANGED <<db, seq, fs>>

\* _ensure_initiative, lines 87-95: INSERT ... RETURNING id
_ensure_initiative_insert(p) ==
    /\ pc[p] = "pol_insert"
    /\ LET a      == loc[p].args
           k      == <<a.name, a.scope>>
           new_id == seq.policy_initiatives + 1
       IN  /\ policy_initiatives_unique => ~LockedByOther(p, "policy_initiatives", k)
           /\ IF /\ policy_initiatives_unique
                 /\ WithKey(View(p).policy_initiatives, "policy_initiatives", k) # {}
                 THEN Raise(p, Exc("UniqueViolation", "policy_initiatives", None))
                 ELSE /\ seq' = [seq EXCEPT !.policy_initiatives = new_id]
                      /\ tx' = Written(p, "policy_initiatives", {},
                                       {[id |-> new_id, initiative_id |-> a.name,
                                         scope |-> a.scope,
                                         initiative_version_ref |-> loc[p].version.id]})
                      /\ Goto(p, "pol_delete", [loc[p] EXCEPT !.fk = new_id])
                      /\ UNCHANGED <<db, fs>>

\* the statement after policy i, mapping j of the nested loops
NextPolicyStatement(policies, i, j) ==
    IF i >= 1 /\ i <= Len(policies) /\ j < Len(policies[i].control_ids)
       THEN [label |-> "pol_mapping", i |-> i, j |-> j + 1]
    ELSE IF i < Len(policies)
       THEN [label |-> "pol_definition", i |-> i + 1, j |-> 0]
    ELSE [label |-> "commit", i |-> i + 1, j |-> 0]

\* _upsert_policies, line 101: DELETE FROM policy_mappings WHERE initiative_fk = %s
_upsert_policies_delete(p) ==
    /\ pc[p] = "pol_delete"
    /\ LET old == {r \in View(p).policy_mappings : r.initiative_fk = loc[p].fk}
           nxt == NextPolicyStatement(loc[p].document.policies, 0, 0)
       IN  /\ \A r \in old : ~LockedByOther(p, "policy_mappings", Key("policy_mappings", r))
           /\ tx' = Written(p, "policy_mappings", old, {})
           /\ Goto(p, nxt.label, [loc[p] EXCEPT !.i = nxt.i, !.j = nxt.j])
    /\ UNCHANGED <<db, seq, fs>>

\* the INSERT with ON CONFLICT (policy_definition_id) DO NOTHING
_upsert_policies_definition_keeps(p) ==
    /\ pc[p] = "pol_definition"
    /\ LET policies == loc[p].document.policies
           policy   == policies[loc[p].i]
           k        == <<policy.policy_definition_id>>
           old      == WithKey(View(p).policy_definitions, "policy_definitions", k)
           row      == [policy_definition_id |-> policy.policy_definition_id,
                        display_name |-> policy.display_name,
                        category |-> policy.category]
           nxt      == NextPolicyStatement(policies, loc[p].i, 0)
       IN  /\ ~LockedByOther(p, "policy_definitions", k)
           /\ tx' = IF old = {} THEN Written(p, "policy_definitions", {}, {row}) ELSE tx
           /\ Goto(p, nxt.label, [loc[p] EXCEPT !.i = nxt.i, !.j = nxt.j,
                                                !.policy_count = @ + 1])
    /\ UNCHANGED <<db, seq, fs>>

\* _upsert_policies, lines 102-113: INSERT INTO policy_definitions ...
\* ON CONFLICT (policy_definition_id) DO UPDATE
_upsert_policies_definition(p) ==
    /\ pc[p] = "pol_definition"
    /\ LET policies == loc[p].document.policies
           policy   == policies[loc[p].i]
           k        == <<policy.policy_definition_id>>
           old      == WithKey(View(p).policy_definitions, "policy_definitions", k)
           row      == [policy_definition_id |-> policy.policy_definition_id,
                        display_name |-> policy.display_name,
                        category |-> policy.category]
           nxt      == NextPolicyStatement(policies, loc[p].i, 0)
       IN  /\ ~LockedByOther(p, "policy_definitions", k)
           /\ tx' = Written(p, "policy_definitions", old, {row})
           /\ Goto(p, nxt.label, [loc[p] EXCEPT !.i = nxt.i, !.j = nxt.j,
                                                !.policy_count = @ + 1])
    /\ UNCHANGED <<db, seq, fs>>

\* _upsert_policies, lines 114-123: INSERT INTO policy_mappings ...
\* ON CONFLICT DO NOTHING
_upsert_policies_mapping(p) ==
    /\ pc[p] = "pol_mapping"
    /\ LET policies == loc[p].document.policies
           policy   == policies[loc[p].i]
           row      == [initiative_fk |-> loc[p].fk,
                        control_id |-> policy.control_ids[loc[p].j],
                        policy_definition_fk |-> policy.policy_definition_id]
           nxt      == NextPolicyStatement(policies, loc[p].i, loc[p].j)
       IN  /\ ~LockedByOther(p, "policy_mappings", Key("policy_mappings", row))
           /\ tx' = Written(p, "policy_mappings", {}, {row})
           /\ Goto(p, nxt.label, [loc[p] EXCEPT !.i = nxt.i, !.j = nxt.j,
                                                !.mapping_count = @ + 1])
    /\ UNCHANGED <<db, seq, fs>>

-----------------------------------------------------------------------------
(* importers/azure/parser.py load_policy_states and                        *)
(* importers/azure/policy_state_importer.py                                *)

\* the first of the aliases of a field that the entry gives a value
FirstOf(entry, aliases) ==
    IF \E i \in 1..Len(aliases) : Get(entry, aliases[i], "") # ""
       THEN entry[aliases[CHOOSE i \in 1..Len(aliases) :
                            /\ Get(entry, aliases[i], "") # ""
                            /\ \A j \in 1..(i - 1) : Get(entry, aliases[j], "") = ""]]
       ELSE ""

\* parser.py lines 81-99: the PolicyStateEntry of an entry
PolicyStateEntry(entry) ==
    [policy_definition_id |-> FirstOf(entry, <<"policyDefinitionId", "policyDefinition">>),
     policy_assignment_id |-> FirstOf(entry, <<"policyAssignmentId">>),
     resource_id |-> FirstOf(entry, <<"resourceId", "resourceUri">>),
     compliance_state |-> FirstOf(entry, <<"complianceState", "state">>),
     last_evaluated |-> FirstOf(entry, <<"timestamp", "lastEvaluatedOn", "evaluatedTime">>)]

\* parser.py line 90: all five fields resolved
IsWhole(state) ==
    /\ state.policy_definition_id # "" /\ state.policy_assignment_id # ""
    /\ state.resource_id # "" /\ state.compliance_state # ""
    /\ state.last_evaluated # ""

RECURSIVE RetainedStates(_)
RetainedStates(entries) ==
    IF entries = <<>> THEN <<>>
    ELSE LET state == PolicyStateEntry(Head(entries))
         IN  (IF IsWhole(state) THEN <<state>> ELSE <<>>) \o RetainedStates(Tail(entries))

\* isinstance(raw, list) on the JSON contents of the model
IsList(bytes) == bytes = "q2"

\* parser.py lines 71-101
load_policy_states(bytes) ==
    LET raw == Json(bytes)
    IN  IF IsList(bytes) THEN Ok(RetainedStates(raw))
        ELSE IF IsStr(raw)
           THEN Exc("ValueError", "unsupported policy state payload", None)
        ELSE Ok(RetainedStates(Or(Or(Get(raw, "value", <<>>), Get(raw, "states", <<>>)),
                                  <<>>)))

\* policy_state_importer.py lines 116-121: the stored datetime of a
\* timestamp text; `now` is the clock at the call
_parse_timestamp(value, now) ==
    CASE value = "T1"  -> "T1"
      [] value = "T1Z" -> "T1+00:00"
      [] value = "T2"  -> "T2"
      [] OTHER -> now

\* ingest(file_path=..., initiative_name=..., scope=...)
PolicyStateIngest(p, names, scopes, sources, times) ==
    /\ Idle(p) /\ Room
    /\ \E name \in names, scope \in scopes, source \in sources, now \in times :
         Goto(p, "pst_load", Locals("policy_states",
                                    [name |-> name, scope |-> scope, source |-> source,
                                     now |-> now]))
    /\ UNCHANGED <<db, seq, fs, tx>>

\* lines 31-32: scope.lower() and load_policy_states
PolicyStateIngest_load(p) ==
    /\ pc[p] = "pst_load"
    /\ LET a      == loc[p].args
           states == load_policy_states(a.source.bytes)
       IN  IF ~states.ok THEN Raise(p, states)
           ELSE /\ Goto(p, "connect", [loc[p] EXCEPT !.document = states.value,
                                                     !.slug = LowerScope(a.scope)])
                /\ UNCHANGED <<db, seq, fs, tx>>

\* the check of the initiative left out
_fetch_initiative_unchecked(p) ==
    /\ pc[p] = "pst_fetch"
    /\ LET a    == loc[p].args
           rows == WithKey(View(p).policy_initiatives, "policy_initiatives",
                           <<a.name, loc[p].slug>>)
           fk   == IF rows = {} THEN 0 ELSE (CHOOSE row \in rows : TRUE).id
       IN  /\ Goto(p, IF loc[p].document = <<>> THEN "commit" ELSE "pst_controls",
                   [loc[p] EXCEPT !.fk = fk, !.i = 1])
           /\ UNCHANGED <<db, seq, fs, tx>>

\* _fetch_initiative, lines 40-49
_fetch_initiative(p) ==
    /\ pc[p] = "pst_fetch"
    /\ LET a    == loc[p].args
           rows == WithKey(View(p).policy_initiatives, "policy_initiatives",
                           <<a.name, loc[p].slug>>)
       IN  IF rows = {}
              THEN Raise(p, Exc("ValueError", "initiative not found", None))
              ELSE \E row \in rows :
                     /\ Goto(p, IF loc[p].document = <<>> THEN "commit" ELSE "pst_controls",
                             [loc[p] EXCEPT !.fk = row.id, !.i = 1])
                     /\ UNCHANGED <<db, seq, fs, tx>>

\* the statement after control j of state i of the nested loops
NextStateStatement(states, i, j, control_ids) ==
    IF j < Len(control_ids) THEN [label |-> "pst_delete", i |-> i, j |-> j + 1]
    ELSE IF i < Len(states) THEN [label |-> "pst_controls", i |-> i + 1, j |-> 0]
    ELSE [label |-> "commit", i |-> i + 1, j |-> 0]

\* the orders a SELECT without ORDER BY can return the values in
Orders(values) ==
    {order \in [1..Cardinality(values) -> values] :
        \A v \in values : \E i \in DOMAIN order : order[i] = v}

\* _controls_for_policy, lines 102-113, and the test of lines 56-57
_controls_for_policy(p) ==
    /\ pc[p] = "pst_controls"
    /\ LET state == loc[p].document[loc[p].i]
           found == {m.control_id : m \in {r \in View(p).policy_mappings :
                        /\ r.initiative_fk = loc[p].fk
                        /\ r.policy_definition_fk = state.policy_definition_id}}
       IN  \E control_ids \in Orders(found) :
              LET nxt == NextStateStatement(loc[p].document, loc[p].i, 0, control_ids)
              IN  Goto(p, nxt.label, [loc[p] EXCEPT !.i = nxt.i, !.j = nxt.j,
                                                    !.control_ids = control_ids])
    /\ UNCHANGED <<db, seq, fs, tx>>

\* the natural key of a policy_states row
StateKey(r) ==
    <<r.initiative_fk, r.control_id, r.policy_definition_fk, r.assignment_id, r.resource_id>>

\* _persist_states, lines 60-76: DELETE FROM policy_states WHERE the five
\* columns of the key match
_persist_states_delete(p) ==
    /\ pc[p] = "pst_delete"
    /\ LET state == loc[p].document[loc[p].i]
           k     == <<loc[p].fk, loc[p].control_ids[loc[p].j], state.policy_definition_id,
                      state.policy_assignment_id, state.resource_id>>
           old   == {r \in View(p).policy_states : StateKey(r) = k}
       IN  /\ \A r \in old : ~LockedByOther(p, "policy_states", Key("policy_states", r))
           /\ tx' = Written(p, "policy_states", old, {})
    /\ Goto(p, "pst_insert", loc[p])
    /\ UNCHANGED <<db, seq, fs>>

\* inserted += 1 after the loop over the controls
_persist_states_insert_once(p) ==
    /\ pc[p] = "pst_insert"
    /\ LET state == loc[p].document[loc[p].i]
           row   == [ctid |-> FreshCtid(p, "policy_states"),
                     initiative_fk |-> loc[p].fk,
                     control_id |-> loc[p].control_ids[loc[p].j],
                     policy_definition_fk |-> state.policy_definition_id,
                     assignment_id |-> state.policy_assignment_id,
                     resource_id |-> state.resource_id,
                     compliance_state |-> state.compliance_state,
                     last_evaluated |-> _parse_timestamp(state.last_evaluated,
                                                         loc[p].args.now)]
           nxt   == NextStateStatement(loc[p].document, loc[p].i, loc[p].j,
                                       loc[p].control_ids)
       IN  /\ tx' = Written(p, "policy_states", {}, {row})
           /\ Goto(p, nxt.label,
                   [loc[p] EXCEPT !.i = nxt.i, !.j = nxt.j,
                                  !.inserted = IF loc[p].j = Len(loc[p].control_ids)
                                                  THEN @ + 1 ELSE @])
    /\ UNCHANGED <<db, seq, fs>>

\* _persist_states, lines 58 and 77-99: INSERT INTO policy_states and
\* inserted += 1
_persist_states_insert(p) ==
    /\ pc[p] = "pst_insert"
    /\ LET state == loc[p].document[loc[p].i]
           row   == [ctid |-> FreshCtid(p, "policy_states"),
                     initiative_fk |-> loc[p].fk,
                     control_id |-> loc[p].control_ids[loc[p].j],
                     policy_definition_fk |-> state.policy_definition_id,
                     assignment_id |-> state.policy_assignment_id,
                     resource_id |-> state.resource_id,
                     compliance_state |-> state.compliance_state,
                     last_evaluated |-> _parse_timestamp(state.last_evaluated,
                                                         loc[p].args.now)]
           nxt   == NextStateStatement(loc[p].document, loc[p].i, loc[p].j,
                                       loc[p].control_ids)
       IN  /\ tx' = Written(p, "policy_states", {}, {row})
           /\ Goto(p, nxt.label, [loc[p] EXCEPT !.i = nxt.i, !.j = nxt.j,
                                                !.inserted = @ + 1])
    /\ UNCHANGED <<db, seq, fs>>

\* the statements of PolicyStateImporter.ingest
PolicyStateStatements(p) ==
    \/ PolicyStateIngest_load(p)
    \/ _fetch_initiative(p)
    \/ _controls_for_policy(p)
    \/ _persist_states_delete(p)
    \/ _persist_states_insert(p)

-----------------------------------------------------------------------------
(* store/migrate.py.  The migration files are files of the tree under      *)
(* MigrationsDir; the effect of executing the SQL of a file is a row of     *)
(* schema_changes, written in the transaction of the call like the row of  *)
(* swft_schema_migrations.                                                 *)

MigrationsDir == <<"migrations">>

s_sql == <<".", "s", "q", "l">>

\* the characters of the file names, in code point order
Alphabet == <<"-", ".", "0", "1", "2", "3", "A", "C", "d", "l", "m", "q", "s">>

CodePoint(c) == CHOOSE i \in 1..Len(Alphabet) : Alphabet[i] = c

\* a < b for two texts, as Python compares str
RECURSIVE Less(_, _)
Less(a, b) ==
    IF b = <<>> THEN FALSE
    ELSE IF a = <<>> THEN TRUE
    ELSE IF Head(a) # Head(b) THEN CodePoint(Head(a)) < CodePoint(Head(b))
    ELSE Less(Tail(a), Tail(b))

\* p.suffix == ".sql"
HasSqlSuffix(filename) ==
    /\ Len(filename) > Len(s_sql)
    /\ SubSeq(filename, Len(filename) - Len(s_sql) + 1, Len(filename)) = s_sql

\* the .sql files of the migrations directory
SqlFiles(files) ==
    {path \in DOMAIN files : path.dir = MigrationsDir /\ HasSqlSuffix(path.filename)}

RECURSIVE SortedByName(_)
SortedByName(paths) ==
    IF paths = {} THEN <<>>
    ELSE LET least == CHOOSE a \in paths :
                         \A b \in paths \ {a} : Less(a.filename, b.filename)
         IN  <<least>> \o SortedByName(paths \ {least})

\* _discover, lines 90-99
_discover(files) ==
    LET paths == SortedByName(SqlFiles(files))
    IN  [i \in 1..Len(paths) |->
           [filename |-> paths[i].filename, path |-> paths[i],
            checksum |-> compute_sha256(files[paths[i]])]]

\* a developer adds a migration file or edits one, between two calls
WriteMigration(filenames, contents) ==
    /\ \A p \in Procs : Idle(p)
    /\ \E filename \in filenames, content \in contents :
         LET path == [dir |-> MigrationsDir, filename |-> filename]
         IN  /\ path \in DOMAIN fs => fs[path] # content
             /\ fs' = [q \in DOMAIN fs \cup {path} |->
                          IF q = path THEN content ELSE fs[q]]
    /\ UNCHANGED <<db, seq, tx, pc, loc, ret>>

\* the filenames recorded as applied
AppliedNames(rows) == {r.filename : r \in rows}

\* apply(): a call starts while the sequence of the tracking table can
\* serve every pending file
MigrationApply(p) ==
    /\ Idle(p)
    /\ seq.swft_schema_migrations
          + Cardinality({path \in SqlFiles(fs) :
                           path.filename \notin AppliedNames(db.swft_schema_migrations)})
          <= MaxId
    /\ Goto(p, "mig_discover", Locals("migrate", EmptyObj))
    /\ UNCHANGED <<db, seq, fs, tx>>

\* lines 36-37: migrations = list(self._discover())
MigrationApply_discover(p) ==
    /\ pc[p] = "mig_discover"
    /\ Goto(p, "connect", [loc[p] EXCEPT !.document = _discover(fs)])
    /\ UNCHANGED <<db, seq, fs, tx>>

\* lines 39-54: CREATE TABLE IF NOT EXISTS and the SELECT of the applied
\* filenames and checksums
MigrationApply_select(p) ==
    /\ pc[p] = "mig_select"
    /\ Goto(p, "mig_check",
            [loc[p] EXCEPT !.i = 1,
                           !.existing = {[filename |-> r.filename, checksum |-> r.checksum] :
                                           r \in View(p).swft_schema_migrations}])
    /\ UNCHANGED <<db, seq, fs, tx>>

\* an applied file is skipped without the comparison of the checksums
MigrationApply_check_trusts(p) ==
    /\ pc[p] = "mig_check"
    /\ LET migrations == loc[p].document
           i          == loc[p].i
       IN  IF i > Len(migrations) THEN Goto(p, "commit", loc[p])
           ELSE IF \E e \in loc[p].existing : e.filename = migrations[i].filename
              THEN Goto(p, "mig_check", [loc[p] EXCEPT !.i = i + 1])
           ELSE Goto(p, "mig_execute", loc[p])
    /\ UNCHANGED <<db, seq, fs, tx>>

\* the mismatch raised on a connection that keeps what the call executed
MigrationApply_check_keeps(p) ==
    /\ pc[p] = "mig_check"
    /\ LET migrations == loc[p].document
           i          == loc[p].i
       IN  IF i > Len(migrations)
              THEN Goto(p, "commit", loc[p]) /\ UNCHANGED <<db, seq, fs, tx>>
           ELSE LET expected == {e \in loc[p].existing :
                                   e.filename = migrations[i].filename}
                IN  IF expected = {}
                       THEN Goto(p, "mig_execute", loc[p]) /\ UNCHANGED <<db, seq, fs, tx>>
                    ELSE IF \E e \in expected : e.checksum # migrations[i].checksum
                       THEN Raise_keeps(p, Exc("RuntimeError", "checksum mismatch",
                                               migrations[i].filename))
                    ELSE /\ Goto(p, "mig_check", [loc[p] EXCEPT !.i = i + 1])
                         /\ UNCHANGED <<db, seq, fs, tx>>

\* lines 55-62: the head of the loop, the checksum test and the end of the
\* loop
MigrationApply_check(p) ==
    /\ pc[p] = "mig_check"
    /\ LET migrations == loc[p].document
           i          == loc[p].i
       IN  IF i > Len(migrations)
              THEN Goto(p, "commit", loc[p]) /\ UNCHANGED <<db, seq, fs, tx>>
           ELSE LET expected == {e \in loc[p].existing :
                                   e.filename = migrations[i].filename}
                IN  IF expected = {}
                       THEN Goto(p, "mig_execute", loc[p]) /\ UNCHANGED <<db, seq, fs, tx>>
                    ELSE IF \E e \in expected : e.checksum # migrations[i].checksum
                       THEN Raise(p, Exc("RuntimeError", "checksum mismatch",
                                         migrations[i].filename))
                    ELSE /\ Goto(p, "mig_check", [loc[p] EXCEPT !.i = i + 1])
                         /\ UNCHANGED <<db, seq, fs, tx>>

\* line 64: conn.execute(migration.path.read_text())
MigrationApply_execute(p) ==
    /\ pc[p] = "mig_execute"
    /\ LET migration == loc[p].document[loc[p].i]
           row       == [ctid |-> FreshCtid(p, "schema_changes"),
                         filename |-> migration.filename, sql |-> fs[migration.path]]
       IN  tx' = Written(p, "schema_changes", {}, {row})
    /\ Goto(p, "mig_record", loc[p])
    /\ UNCHANGED <<db, seq, fs>>

\* the INSERT into the tracking table left out
MigrationApply_record_skipped(p) ==
    /\ pc[p] = "mig_record"
    /\ Goto(p, "mig_check",
            [loc[p] EXCEPT !.i = @ + 1,
                           !.applied = Append(@, loc[p].document[loc[p].i].filename)])
    /\ UNCHANGED <<db, seq, fs, tx>>

\* lines 65-69: INSERT INTO swft_schema_migrations(filename, checksum) and
\* applied.append
MigrationApply_record(p) ==
    /\ pc[p] = "mig_record"
    /\ LET migration == loc[p].document[loc[p].i]
           k         == <<migration.filename>>
           new_id    == seq.swft_schema_migrations + 1
       IN  /\ ~LockedByOther(p, "swft_schema_migrations", k)
           /\ IF WithKey(View(p).swft_schema_migrations, "swft_schema_migrations", k) # {}
                 THEN Raise(p, Exc("UniqueViolation", "swft_schema_migrations", None))
                 ELSE /\ seq' = [seq EXCEPT !.swft_schema_migrations = new_id]
                      /\ tx' = Written(p, "swft_schema_migrations", {},
                                       {[id |-> new_id, filename |-> migration.filename,
                                         checksum |-> migration.checksum]})
                      /\ Goto(p, "mig_check",
                              [loc[p] EXCEPT !.i = @ + 1,
                                             !.applied = Append(@, migration.filename)])
                      /\ UNCHANGED <<db, fs>>

-----------------------------------------------------------------------------
(* projects/manager.py *)

ProjectRecord(id, key, services, regions, boundary_description) ==
    [id |-> id, key |-> key, services |-> services, regions |-> regions,
     boundary_description |-> boundary_description]

\* create_project and upsert_project
CallProject(p, ops, keys, lists, boundaries) ==
    /\ Idle(p) /\ Room
    /\ \E op \in ops, key \in keys, services \in lists, regions \in lists,
          boundary \in boundaries :
         Goto(p, "connect", Locals(op, [key |-> key, services |-> services,
                                        regions |-> regions,
                                        boundary_description |-> boundary]))
    /\ UNCHANGED <<db, seq, fs, tx>>

\* create_project lines 40-50: INSERT INTO projects ... RETURNING id, a
\* unique violation raised as ValueError; upsert_project lines 74-84: the
\* same INSERT with ON CONFLICT (project_key) DO UPDATE
ProjectInsert(p) ==
    /\ pc[p] = "proj_insert"
    /\ LET a      == loc[p].args
           k      == <<a.key>>
           old    == WithKey(View(p).projects, "projects", k)
           new_id == seq.projects + 1
       IN  /\ ~LockedByOther(p, "projects", k)
           /\ IF old = {}
                 THEN /\ seq' = [seq EXCEPT !.projects = new_id]
                      /\ tx' = Written(p, "projects", {},
                                       {[id |-> new_id, project_key |-> a.key,
                                         boundary_description |-> a.boundary_description]})
                      /\ Goto(p, "coll_delete", [loc[p] EXCEPT !.fk = new_id, !.j = 1])
                      /\ UNCHANGED <<db, fs>>
              ELSE IF loc[p].op = "create_project"
                 THEN Raise(p, Exc("ValueError", "project already exists", None))
              ELSE \E row \in old :
                      /\ tx' = Written(p, "projects", {row},
                                       {[row EXCEPT !.boundary_description =
                                                       a.boundary_description]})
                      /\ Goto(p, "coll_delete", [loc[p] EXCEPT !.fk = row.id, !.j = 1])
                      /\ UNCHANGED <<db, seq, fs>>

\* the table and the values of the j-th _replace_collection call
CollectionTable(j) == IF j = 1 THEN "project_services" ELSE "project_regions"

CollectionValues(l) == IF l.j = 1 THEN l.args.services ELSE l.args.regions

CollectionRow(j, project_id, value) ==
    IF j = 1 THEN [project_fk |-> project_id, service_name |-> value]
    ELSE [project_fk |-> project_id, region_name |-> value]

\* the statement after the delete or the i-th insert of collection j
NextCollectionStatement(l, i) ==
    IF i < Len(CollectionValues(l)) THEN [label |-> "coll_insert", i |-> i + 1, j |-> l.j]
    ELSE IF l.j = 1 THEN [label |-> "coll_delete", i |-> 0, j |-> 2]
    ELSE [label |-> "commit", i |-> 0, j |-> 3]

\* _replace_collection lines 148-151: DELETE FROM {table} WHERE project_fk = %s
_replace_collection_delete(p) ==
    /\ pc[p] = "coll_delete"
    /\ LET t   == CollectionTable(loc[p].j)
           old == {r \in View(p)[t] : r.project_fk = loc[p].fk}
           nxt == NextCollectionStatement(loc[p], 0)
       IN  /\ \A r \in old : ~LockedByOther(p, t, Key(t, r))
           /\ tx' = Written(p, t, old, {})
           /\ Goto(p, nxt.label, [loc[p] EXCEPT !.i = nxt.i, !.j = nxt.j])
    /\ UNCHANGED <<db, seq, fs>>

\* _replace_collection lines 152-158: one INSERT INTO {table}
_replace_collection_insert(p) ==
    /\ pc[p] = "coll_insert"
    /\ LET t   == CollectionTable(loc[p].j)
           row == CollectionRow(loc[p].j, loc[p].fk, CollectionValues(loc[p])[loc[p].i])
           nxt == NextCollectionStatement(loc[p], loc[p].i)
       IN  /\ ~LockedByOther(p, t, Key(t, row))
           /\ tx' = Written(p, t, {}, {row})
           /\ Goto(p, nxt.label, [loc[p] EXCEPT !.i = nxt.i, !.j = nxt.j])
    /\ UNCHANGED <<db, seq, fs>>

-----------------------------------------------------------------------------
(* evidence/manager.py, runs.py *)

\* st_size of a file content
SizeOf(bytes) ==
    CASE bytes = "" -> 0 [] bytes = "e1" -> 1 [] bytes = "e2:1" -> 1 [] OTHER -> 2

\* store/evidence/{project_key}/{run_id}
RunDir(project_key, run_id) == <<"store", "/", "evidence", "/">> \o project_key \o <<"/">> \o run_id

\* ingest_file(project=..., run_id=..., kind=..., source=...), the project
\* record being one get_project returned
EvidenceIngestFile(p, run_ids, kinds, sources) ==
    /\ Idle(p) /\ Room
    /\ \E row \in db.projects, run_id \in run_ids, kind \in kinds, source \in sources :
         Goto(p, "evi_pin",
              Locals("ingest_file",
                     [project |-> [id |-> row.id, key |-> row.project_key],
                      run_id |-> run_id, kind |-> kind, source |-> source]))
    /\ UNCHANGED <<db, seq, fs, tx>>

\* lines 38-42: pin_source_file, the size and the collection time
EvidenceIngestFile_pin(p, times) ==
    /\ pc[p] = "evi_pin"
    /\ LET a      == loc[p].args
           dir    == RunDir(a.project.key, a.run_id)
           stem   == a.project.key \o <<"-">> \o a.run_id \o <<"-">> \o a.source.stem
           target == PinTarget(a.source, dir, stem)
           files  == pin_source_file(fs, a.source, dir, stem)
       IN  /\ fs' = files
           /\ \E collected_at \in times :
                Goto(p, "connect",
                     [loc[p] EXCEPT
                        !.pinned_path = target.dest,
                        !.digest = target.digest,
                        !.row = [size_bytes |-> SizeOf(files[target.dest]),
                                 collected_at |-> collected_at]])
    /\ UNCHANGED <<db, seq, tx>>

\* the INSERT without ON CONFLICT on a table without the unique key
ensure_run_insert_always(p) ==
    /\ pc[p] = "run_insert"
    /\ LET a      == loc[p].args
           new_id == seq.runs + 1
       IN  /\ seq' = [seq EXCEPT !.runs = new_id]
           /\ tx' = Written(p, "runs", {},
                            {[id |-> new_id, project_fk |-> a.project.id,
                              run_id |-> a.run_id]})
           /\ Goto(p, "evi_upsert", [loc[p] EXCEPT !.fk = new_id])
    /\ UNCHANGED <<db, fs>>

\* ensure_run lines 10-22: INSERT INTO runs ... ON CONFLICT (project_fk,
\* run_id) DO NOTHING RETURNING id
ensure_run_insert(p) ==
    /\ pc[p] = "run_insert"
    /\ LET a      == loc[p].args
           k      == <<a.project.id, a.run_id>>
           new_id == seq.runs + 1
       IN  /\ ~LockedByOther(p, "runs", k)
           /\ IF WithKey(View(p).runs, "runs", k) = {}
                 THEN /\ seq' = [seq EXCEPT !.runs = new_id]
                      /\ tx' = Written(p, "runs", {},
                                       {[id |-> new_id, project_fk |-> a.project.id,
                                         run_id |-> a.run_id]})
                      /\ Goto(p, "evi_upsert", [loc[p] EXCEPT !.fk = new_id])
                 ELSE /\ Goto(p, "run_select", loc[p])
                      /\ UNCHANGED <<seq, tx>>
    /\ UNCHANGED <<db, fs>>

\* ensure_run lines 23-30: the SELECT of the existing row
ensure_run_select(p) ==
    /\ pc[p] = "run_select"
    /\ LET a    == loc[p].args
           rows == WithKey(View(p).runs, "runs", <<a.project.id, a.run_id>>)
       IN  IF rows = {}
              THEN Raise(p, Exc("RuntimeError", "failed to ensure run", None))
              ELSE /\ \E row \in rows : Goto(p, "evi_upsert", [loc[p] EXCEPT !.fk = row.id])
                   /\ UNCHANGED <<db, seq, fs, tx>>

\* the INSERT with ON CONFLICT (content_hash) DO NOTHING and a SELECT of the id
EvidenceIngestFile_upsert_keeps(p) ==
    /\ pc[p] = "evi_upsert"
    /\ LET a      == loc[p].args
           k      == <<loc[p].digest>>
           old    == WithKey(View(p).evidence_files, "evidence_files", k)
           new_id == seq.evidence_files + 1
           fresh  == [id |-> new_id, kind |-> a.kind, file_path |-> loc[p].pinned_path,
                      content_hash |-> loc[p].digest,
                      size_bytes |-> loc[p].row.size_bytes,
                      collected_at |-> loc[p].row.collected_at, run_id |-> a.run_id]
       IN  /\ ~LockedByOther(p, "evidence_files", k)
           /\ IF old = {}
                 THEN /\ seq' = [seq EXCEPT !.evidence_files = new_id]
                      /\ tx' = Written(p, "evidence_files", {}, {fresh})
                      /\ Goto(p, "evi_link", [loc[p] EXCEPT !.evidence_id = new_id])
                 ELSE \E row \in old :
                      /\ UNCHANGED <<seq, tx>>
                      /\ Goto(p, "evi_link", [loc[p] EXCEPT !.evidence_id = row.id])
    /\ UNCHANGED <<db, fs>>

\* ingest_file lines 47-69: INSERT INTO evidence_files ... ON CONFLICT
\* (content_hash) DO UPDATE ... RETURNING id
EvidenceIngestFile_upsert(p) ==
    /\ pc[p] = "evi_upsert"
    /\ LET a      == loc[p].args
           k      == <<loc[p].digest>>
           old    == WithKey(View(p).evidence_files, "evidence_files", k)
           new_id == seq.evidence_files + 1
           fresh  == [id |-> new_id, kind |-> a.kind, file_path |-> loc[p].pinned_path,
                      content_hash |-> loc[p].digest,
                      size_bytes |-> loc[p].row.size_bytes,
                      collected_at |-> loc[p].row.collected_at, run_id |-> a.run_id]
       IN  /\ ~LockedByOther(p, "evidence_files", k)
           /\ IF old = {}
                 THEN /\ seq' = [seq EXCEPT !.evidence_files = new_id]
                      /\ tx' = Written(p, "evidence_files", {}, {fresh})
                      /\ Goto(p, "evi_link", [loc[p] EXCEPT !.evidence_id = new_id])
                 ELSE \E row \in old :
                      /\ seq' = seq
                      /\ tx' = Written(p, "evidence_files", {row},
                                       {[fresh EXCEPT !.id = row.id]})
                      /\ Goto(p, "evi_link", [loc[p] EXCEPT !.evidence_id = row.id])
    /\ UNCHANGED <<db, fs>>

\* the link followed by a registration of the pinned file as a version
EvidenceIngestFile_link_registers(p) ==
    /\ pc[p] = "evi_link"
    /\ LET row == [run_fk |-> loc[p].fk, evidence_fk |-> loc[p].evidence_id]
           k   == Key("run_evidence", row)
           reg == [id |-> seq.version_registry + 1, kind |-> "evidence",
                   name |-> loc[p].args.run_id, version |-> loc[p].args.run_id,
                   content_hash |-> loc[p].digest, source_uri |-> loc[p].pinned_path]
       IN  /\ ~LockedByOther(p, "run_evidence", k)
           /\ seq' = [seq EXCEPT !.version_registry = @ + 1]
           /\ tx' = [Written(p, "run_evidence", {}, {row}) EXCEPT
                       ![p].ins.version_registry = @ \cup {reg}]
    /\ Goto(p, IF loc[p].op = "ingest_file" THEN "commit" ELSE "evi_commit", loc[p])
    /\ UNCHANGED <<db, fs>>

\* ingest_file lines 70-77: INSERT INTO run_evidence ... ON CONFLICT DO NOTHING
EvidenceIngestFile_link(p) ==
    /\ pc[p] = "evi_link"
    /\ LET row == [run_fk |-> loc[p].fk, evidence_fk |-> loc[p].evidence_id]
       IN  /\ ~LockedByOther(p, "run_evidence", Key("run_evidence", row))
           /\ tx' = Written(p, "run_evidence", {}, {row})
    /\ Goto(p, IF loc[p].op = "ingest_file" THEN "commit" ELSE "evi_commit", loc[p])
    /\ UNCHANGED <<db, seq, fs>>

\* ingest_file lines 78-86 called by an ingestor: conn.commit(), the
\* connection is closed and the EvidenceRecord returned to the ingestor
EvidenceIngestFile_commit(p) ==
    /\ pc[p] = "evi_commit"
    /\ db' = Committed(p)
    /\ tx' = [tx EXCEPT ![p] = NoTx]
    /\ Goto(p, "connect", loc[p])
    /\ UNCHANGED <<seq, fs>>

-----------------------------------------------------------------------------
(* evidence/sbom_cyclonedx.py, evidence/trivy.py, evidence/signatures.py *)

\* SbomIngestor.ingest(project=..., run_id=..., sbom_path=...)
SbomIngest(p, run_ids, sources) ==
    /\ Idle(p) /\ Room
    /\ \E row \in db.projects, run_id \in run_ids, source \in sources :
         Goto(p, "sbom_parse",
              Locals("sbom", [project |-> [id |-> row.id, key |-> row.project_key],
                              run_id |-> run_id, kind |-> "sbom", source |-> source]))
    /\ UNCHANGED <<db, seq, fs, tx>>

\* line 20: parse_cyclonedx
SbomIngest_parse(p) ==
    /\ pc[p] = "sbom_parse"
    /\ LET components == parse_cyclonedx(loc[p].args.source.bytes)
       IN  IF ~components.ok THEN Raise(p, components)
           ELSE /\ Goto(p, "evi_pin", [loc[p] EXCEPT !.document = components.value])
                /\ UNCHANGED <<db, seq, fs, tx>>

\* the DELETE of the child rows left out
SbomIngest_delete_skipped(p) ==
    /\ pc[p] = "sbom_delete"
    /\ Goto(p, IF loc[p].document = <<>> THEN "commit" ELSE "sbom_insert",
            [loc[p] EXCEPT !.i = 1])
    /\ UNCHANGED <<db, seq, fs, tx>>

\* line 30: DELETE FROM sbom_components WHERE evidence_fk = %s
SbomIngest_delete(p) ==
    /\ pc[p] = "sbom_delete"
    /\ LET old == {r \in View(p).sbom_components : r.evidence_fk = loc[p].evidence_id}
       IN  /\ \A r \in old : ~LockedByOther(p, "sbom_components", Key("sbom_components", r))
           /\ tx' = Written(p, "sbom_components", old, {})
    /\ Goto(p, IF loc[p].document = <<>> THEN "commit" ELSE "sbom_insert",
            [loc[p] EXCEPT !.i = 1])
    /\ UNCHANGED <<db, seq, fs>>

\* lines 31-44: one INSERT INTO sbom_components of the loop
SbomIngest_insert(p) ==
    /\ pc[p] = "sbom_insert"
    /\ LET component == loc[p].document[loc[p].i]
           row == [ctid |-> FreshCtid(p, "sbom_components"),
                   evidence_fk |-> loc[p].evidence_id, name |-> component.name,
                   version |-> component.version, purl |-> component.purl,
                   licenses |-> Join(component.licenses)]
       IN  tx' = Written(p, "sbom_components", {}, {row})
    /\ Goto(p, IF loc[p].i = Len(loc[p].document) THEN "commit" ELSE "sbom_insert",
            [loc[p] EXCEPT !.i = @ + 1])
    /\ UNCHANGED <<db, seq, fs>>

\* TrivyIngestor.ingest(project=..., run_id=..., trivy_path=..., artifact_hint=...)
TrivyIngest(p, run_ids, sources, hints) ==
    /\ Idle(p) /\ Room
    /\ \E row \in db.projects, run_id \in run_ids, source \in sources, hint \in hints :
         Goto(p, "trivy_parse",
              Locals("trivy", [project |-> [id |-> row.id, key |-> row.project_key],
                               run_id |-> run_id, kind |-> "trivy", source |-> source,
                               artifact_hint |-> hint]))
    /\ UNCHANGED <<db, seq, fs, tx>>

\* lines 27-31: parse_trivy_report and the artifact hint
TrivyIngest_parse(p) ==
    /\ pc[p] = "trivy_parse"
    /\ LET a        == loc[p].args
           findings == parse_trivy_report(a.source.bytes)
           hinted   == [i \in 1..Len(findings.value) |->
                          IF a.artifact_hint # None /\ findings.value[i].artifact = None
                             THEN [findings.value[i] EXCEPT !.artifact = a.artifact_hint]
                             ELSE findings.value[i]]
       IN  IF ~findings.ok THEN Raise(p, findings)
           ELSE /\ Goto(p, "evi_pin", [loc[p] EXCEPT !.document = hinted])
                /\ UNCHANGED <<db, seq, fs, tx>>

\* the DELETE of the findings of the evidence left out
TrivyIngest_delete_skipped(p) ==
    /\ pc[p] = "trivy_delete"
    /\ Goto(p, IF loc[p].document = <<>> THEN "commit" ELSE "trivy_insert",
            [loc[p] EXCEPT !.i = 1])
    /\ UNCHANGED <<db, seq, fs, tx>>

\* line 41: DELETE FROM trivy_findings WHERE evidence_fk = %s
TrivyIngest_delete(p) ==
    /\ pc[p] = "trivy_delete"
    /\ LET old == {r \in View(p).trivy_findings : r.evidence_fk = loc[p].evidence_id}
       IN  /\ \A r \in old : ~LockedByOther(p, "trivy_findings", Key("trivy_findings", r))
           /\ tx' = Written(p, "trivy_findings", old, {})
    /\ Goto(p, IF loc[p].document = <<>> THEN "commit" ELSE "trivy_insert",
            [loc[p] EXCEPT !.i = 1])
    /\ UNCHANGED <<db, seq, fs>>

\* lines 42-66: one INSERT INTO trivy_findings of the loop
TrivyIngest_insert(p) ==
    /\ pc[p] = "trivy_insert"
    /\ LET finding == loc[p].document[loc[p].i]
           row == [ctid |-> FreshCtid(p, "trivy_findings"),
                   evidence_fk |-> loc[p].evidence_id, cve_id |-> finding.cve_id,
                   severity |-> finding.severity, pkg |-> finding.pkg,
                   installed_version |-> finding.installed_version,
                   fixed_version |-> finding.fixed_version,
                   artifact |-> finding.artifact, path |-> finding.path]
       IN  tx' = Written(p, "trivy_findings", {}, {row})
    /\ Goto(p, IF loc[p].i = Len(loc[p].document) THEN "commit" ELSE "trivy_insert",
            [loc[p] EXCEPT !.i = @ + 1])
    /\ UNCHANGED <<db, seq, fs>>

\* SignatureIngestor.ingest(project=..., run_id=..., signature_path=...,
\* digest=..., verified=...)
SignatureIngest(p, run_ids, sources, digests, verifieds) ==
    /\ Idle(p) /\ Room
    /\ \E row \in db.projects, run_id \in run_ids, source \in sources,
          digest \in digests, verified \in verifieds :
         Goto(p, "sig_parse",
              Locals("signature", [project |-> [id |-> row.id, key |-> row.project_key],
                                   run_id |-> run_id, kind |-> "signature",
                                   source |-> source, digest |-> digest,
                                   verified |-> verified]))
    /\ UNCHANGED <<db, seq, fs, tx>>

\* line 41: parse_signature_file
SignatureIngest_parse(p) ==
    /\ pc[p] = "sig_parse"
    /\ LET raw == parse_signature_file(loc[p].args.source.bytes)
       IN  IF ~raw.ok THEN Raise(p, raw)
           ELSE /\ Goto(p, "evi_pin", loc[p])
                /\ UNCHANGED <<db, seq, fs, tx>>

\* lines 51-60: INSERT INTO signatures ... ON CONFLICT (evidence_fk) DO UPDATE
SignatureIngest_upsert(p) ==
    /\ pc[p] = "sig_upsert"
    /\ LET a   == loc[p].args
           row == [evidence_fk |-> loc[p].evidence_id, image_digest |-> a.digest,
                   verified |-> a.verified]
           k   == Key("signatures", row)
           old == WithKey(View(p).signatures, "signatures", k)
       IN  /\ ~LockedByOther(p, "signatures", k)
           /\ tx' = Written(p, "signatures", old, {row})
    /\ Goto(p, "commit", loc[p])
    /\ UNCHANGED <<db, seq, fs>>

\* the statements of EvidenceManager.ingest_file
EvidenceStatements(p, times) ==
    \/ EvidenceIngestFile_pin(p, times)
    \/ ensure_run_insert(p)
    \/ ensure_run_select(p)
    \/ EvidenceIngestFile_upsert(p)
    \/ EvidenceIngestFile_link(p)

\* the statements of the three ingestors
IngestorStatements(p) ==
    \/ EvidenceIngestFile_commit(p)
    \/ SbomIngest_parse(p)
    \/ SbomIngest_delete(p)
    \/ SbomIngest_insert(p)
    \/ TrivyIngest_parse(p)
    \/ TrivyIngest_delete(p)
    \/ TrivyIngest_insert(p)
    \/ SignatureIngest_parse(p)
    \/ SignatureIngest_upsert(p)

\* the statements of create_project and upsert_project
ProjectStatements(p) ==
    \/ ProjectInsert(p)
    \/ _replace_collection_delete(p)
    \/ _replace_collection_insert(p)

-----------------------------------------------------------------------------
(* store/files.py step by step: pin_source_file with shutil.copy2 as the   *)
(* open of the destination and one write per buffer, followed by the size  *)
(* read of evidence/manager.py line 41                                     *)

\* the number of buffers copy2 writes for a content
Chunks(bytes) == IF bytes = "e2" THEN 2 ELSE 1

\* the content of a file of which the buffers `written` of `bytes` are written
Stored(bytes, written) ==
    IF written = 1..Chunks(bytes) THEN bytes
    ELSE IF written = {} THEN ""
    ELSE IF written = {1} THEN "e2:1" ELSE "e2:2"

\* the buffers of `bytes` a file content holds
ChunksOf(content, bytes) ==
    CASE content = bytes -> 1..Chunks(bytes)
      [] content = "e2:1" -> {1}
      [] content = "e2:2" -> {2}
      [] OTHER -> {}

\* pin_source_file(source, dest_dir, stem)
PinSource(p, sources, dirs, stems) ==
    /\ Idle(p)
    /\ \E source \in sources, dest_dir \in dirs, stem \in stems :
         Goto(p, "pin_digest",
              Locals("pin_source_file",
                     [source |-> source, dest_dir |-> dest_dir, stem |-> stem]))
    /\ UNCHANGED <<db, seq, fs, tx>>

\* lines 17-21: the digest and the destination path
pin_source_file_digest(p) ==
    /\ pc[p] = "pin_digest"
    /\ LET a      == loc[p].args
           target == PinTarget(a.source, a.dest_dir, a.stem)
       IN  Goto(p, "pin_exists",
                [loc[p] EXCEPT !.pinned_path = target.dest, !.digest = target.digest])
    /\ UNCHANGED <<db, seq, fs, tx>>

\* the copy made whether or not the destination exists
pin_source_file_always_copies(p) ==
    /\ pc[p] = "pin_exists"
    /\ Goto(p, "pin_open", loc[p])
    /\ UNCHANGED <<db, seq, fs, tx>>

\* line 22: if not dest.exists()
pin_source_file_exists(p) ==
    /\ pc[p] = "pin_exists"
    /\ Goto(p, IF loc[p].pinned_path \in DOMAIN fs THEN "pin_stat" ELSE "pin_open", loc[p])
    /\ UNCHANGED <<db, seq, fs, tx>>

\* line 23, shutil.copy2: the destination is opened for writing, which
\* creates it empty or truncates it
copy2_open(p) ==
    /\ pc[p] = "pin_open"
    /\ LET dest == loc[p].pinned_path
       IN  fs' = [q \in DOMAIN fs \cup {dest} |-> IF q = dest THEN "" ELSE fs[q]]
    /\ Goto(p, "pin_write", [loc[p] EXCEPT !.i = 1])
    /\ UNCHANGED <<db, seq, tx>>

\* line 23, shutil.copy2: the i-th buffer is written at its offset
copy2_write(p) ==
    /\ pc[p] = "pin_write"
    /\ LET dest  == loc[p].pinned_path
           bytes == loc[p].args.source.bytes
       IN  /\ fs' = [fs EXCEPT ![dest] = Stored(bytes, ChunksOf(@, bytes) \cup {loc[p].i})]
           /\ Goto(p, IF loc[p].i = Chunks(bytes) THEN "pin_stat" ELSE "pin_write",
                   [loc[p] EXCEPT !.i = @ + 1])
    /\ UNCHANGED <<db, seq, tx>>

\* line 24 and evidence/manager.py line 41: return dest, digest; the caller
\* reads pinned_path.stat().st_size
pin_source_file_return(p) ==
    /\ pc[p] = "pin_stat"
    /\ Finish(p, Ok([path |-> loc[p].pinned_path, digest |-> loc[p].digest,
                     size_bytes |-> SizeOf(fs[loc[p].pinned_path])]))
    /\ UNCHANGED <<db, seq, fs>>

\* the statements of pin_source_file
PinStatements(p) ==
    \/ pin_source_file_digest(p)
    \/ pin_source_file_exists(p)
    \/ copy2_open(p)
    \/ copy2_write(p)
    \/ pin_source_file_return(p)

-----------------------------------------------------------------------------
(* cli.py control_set_param, controls/parameters.py, controls/models.py,   *)
(* mapping/scaffold.py                                                     *)

\* normalize_parameter: the param_id, "" when the parameter has none
ParamIdOf(data) ==
    IF Get(data, "id", "") # "" THEN data.id ELSE Get(data, "param_id", "")

\* control_set_param(project, control, param, value)
ControlSetParam(p, keys, controls, params, values) ==
    /\ Idle(p) /\ Room
    /\ \E key \in keys, control \in controls, param \in params, value \in values :
         Goto(p, "param_project",
              Locals("set_param", [project |-> key, control |-> control,
                                   param |-> param, value |-> value]))
    /\ UNCHANGED <<db, seq, fs, tx>>

\* cli.py lines 303-306 and get_project lines 118-129
ControlSetParam_project(p) ==
    /\ pc[p] = "param_project"
    /\ LET rows == WithKey(db.projects, "projects", <<loc[p].args.project>>)
       IN  IF rows = {}
              THEN Raise(p, Exc("ValueError", "project not found", None))
              ELSE /\ \E row \in rows : Goto(p, "param_check", [loc[p] EXCEPT !.fk = row.id])
                   /\ UNCHANGED <<db, seq, fs, tx>>

\* cli.py lines 307-310, ensure_parameter_exists and _fetch_parameters
ControlSetParam_check(p) ==
    /\ pc[p] = "param_check"
    /\ LET a    == loc[p].args
           rows == WithKey(db.catalog_controls, "catalog_controls", <<a.control>>)
       IN  IF rows = {}
              THEN Raise(p, Exc("ValueError", "control not found in catalog", None))
              ELSE \E row \in rows :
                     LET params == row.parameters_json
                         ids    == {ParamIdOf(params[i]) : i \in 1..Len(params)}
                     IN  IF "" \in ids
                            THEN Raise(p, Exc("ValueError", "parameter without an id", None))
                         ELSE IF a.param \notin ids
                            THEN Raise(p, Exc("ValueError", "parameter not found", None))
                         ELSE /\ Goto(p, "connect", loc[p])
                              /\ UNCHANGED <<db, seq, fs, tx>>

\* cli.py lines 311-322: INSERT INTO parameter_values ... ON CONFLICT
\* (project_fk, control_id, param_id) DO UPDATE SET value
ControlSetParam_upsert(p) ==
    /\ pc[p] = "param_upsert"
    /\ LET a   == loc[p].args
           row == [project_fk |-> loc[p].fk, control_id |-> a.control,
                   param_id |-> a.param, value |-> a.value]
           k   == Key("parameter_values", row)
           old == WithKey(View(p).parameter_values, "parameter_values", k)
       IN  /\ ~LockedByOther(p, "parameter_values", k)
           /\ tx' = Written(p, "parameter_values", old, {row})
    /\ Goto(p, "param_requirement", loc[p])
    /\ UNCHANGED <<db, seq, fs>>

\* ensure_implemented_requirement: INSERT INTO implemented_requirements ...
\* ON CONFLICT (project_fk, control_id) DO NOTHING
ensure_implemented_requirement(p) ==
    /\ pc[p] = "param_requirement"
    /\ LET row == [project_fk |-> loc[p].fk, control_id |-> loc[p].args.control,
                   ownership |-> "Customer", status |-> "Partial"]
           k   == Key("implemented_requirements", row)
       IN  /\ ~LockedByOther(p, "implemented_requirements", k)
           /\ tx' = IF WithKey(View(p).implemented_requirements,
                               "implemented_requirements", k) = {}
                       THEN Written(p, "implemented_requirements", {}, {row})
                       ELSE tx
    /\ Goto(p, IF loc[p].op = "set_parameter" THEN "svc_exit" ELSE "commit", loc[p])
    /\ UNCHANGED <<db, seq, fs>>

\* backend/app/services/swft.py lines 92-94: set_parameter(project_key,
\* control_id, param_id, value); get_project and ensure_parameter_exists
\* are the calls of control_set_param
SetParameter(p, keys, controls, params, values) ==
    /\ Idle(p) /\ Room
    /\ \E key \in keys, control \in controls, param \in params, value \in values :
         Goto(p, "param_project",
              Locals("set_parameter", [project |-> key, control |-> control,
                                       param |-> param, value |-> value]))
    /\ UNCHANGED <<db, seq, fs, tx>>

\* swft.py line 95 with store/db.py lines 38-39: the end of the with block
\* of get_connection commits the transaction and closes the connection
SetParameter_exit(p) ==
    /\ pc[p] = "svc_exit"
    /\ db' = Committed(p)
    /\ tx' = [tx EXCEPT ![p] = NoTx]
    /\ Goto(p, "svc_commit", loc[p])
    /\ UNCHANGED <<seq, fs>>

\* swft.py line 108: conn.commit() after the with block, on the closed
\* connection: psycopg raises OperationalError
SetParameter_commit(p) ==
    /\ pc[p] = "svc_commit"
    /\ Raise(p, Exc("OperationalError", "the connection is closed", None))

-----------------------------------------------------------------------------
(* The end of a call *)

\* what the call returns after its commit
\* evidence/manager.py lines 79-86
EvidenceRecord(l) ==
    [id |-> l.evidence_id, kind |-> l.args.kind, file_path |-> l.pinned_path,
     content_hash |-> l.digest, run_fk |-> l.fk, run_id |-> l.args.run_id]

ReturnValue(l) ==
    CASE l.op = "ensure_version" -> l.version
      [] l.op = "catalog" ->
           [version |-> l.version, control_count |-> Len(l.document.controls),
            pinned_path |-> l.pinned_path]
      [] l.op = "baseline" ->
           [version |-> l.version, control_count |-> Len(l.document.control_ids),
            pinned_path |-> l.pinned_path]
      [] l.op = "policy_initiative" ->
           [version |-> l.version, initiative_id |-> l.fk,
            policy_count |-> l.policy_count, mapping_count |-> l.mapping_count,
            pinned_path |-> l.pinned_path]
      [] l.op \in {"upsert_project", "create_project"} ->
           ProjectRecord(l.fk, l.args.key, l.args.services, l.args.regions,
                         l.args.boundary_description)
      [] l.op = "ingest_file" -> EvidenceRecord(l)
      [] l.op \in {"sbom", "trivy"} ->
           [evidence |-> EvidenceRecord(l), count |-> Len(l.document)]
      [] l.op = "signature" -> EvidenceRecord(l)
      [] l.op = "set_param" -> EmptyObj
      [] l.op = "migrate" -> l.applied
      [] l.op = "policy_states" ->
           [rows_processed |-> Len(l.document), rows_inserted |-> l.inserted]

\* conn.commit()
Commit(p) ==
    /\ pc[p] = "commit"
    /\ db' = Committed(p)
    /\ Finish(p, Ok(ReturnValue(loc[p])))
    /\ UNCHANGED <<seq, fs>>

-----------------------------------------------------------------------------
(* Specifications *)

Init ==
    /\ db  = NoRows
    /\ seq = [t \in Sequences_ |-> 0]
    /\ fs  = <<>>
    /\ tx  = [p \in Procs |-> NoTx]
    /\ pc  = [p \in Procs |-> "idle"]
    /\ loc = [p \in Procs |-> NoCall]
    /\ ret = [p \in Procs |-> [call |-> NoCall, result |-> Ok(EmptyObj)]]

RegKeys   == {<<"catalog", s_n1>>, <<"baseline", s_n1>>}
RegLabels == {s_v5, s_v51}
RegHashes == {compute_sha256("cA"), compute_sha256("cB")}
RegUris   == {PinTarget([bytes |-> "cA", suffixes |-> None], CatalogsDir, s_n1).dest,
              PinTarget([bytes |-> "cB", suffixes |-> None], CatalogsDir, s_n1).dest}

CatalogSources == {[bytes |-> b, suffixes |-> None] : b \in CatalogBytes}

\* the connection, ensure_version and the commit
RegistryStatements(p) ==
    \/ Connect(p)
    \/ ensure_version_select(p)
    \/ ensure_version_update(p)
    \/ ensure_version_insert(p)
    \/ Commit(p)

\* the statements of CatalogImporter.ingest
CatalogStatements(p) ==
    \/ CatalogIngest_load(p)
    \/ CatalogIngest_pin(p)
    \/ CatalogIngest_upsert(p)

\* the statements of ProfileImporter.ingest and PolicyDefinitionImporter.ingest
OtherImportStatements(p) ==
    \/ ProfileIngest_load(p)
    \/ ProfileIngest_pin(p)
    \/ ProfileIngest_profile(p)
    \/ ProfileIngest_delete(p)
    \/ ProfileIngest_insert(p)
    \/ PolicyIngest_load(p)
    \/ PolicyIngest_pin(p)
    \/ _ensure_initiative_select(p)
    \/ _ensure_initiative_update(p)
    \/ _ensure_initiative_insert(p)
    \/ _upsert_policies_delete(p)
    \/ _upsert_policies_definition(p)
    \/ _upsert_policies_mapping(p)

\* the statements of ProfileImporter.ingest
ProfileStatements(p) ==
    \/ ProfileIngest_load(p)
    \/ ProfileIngest_pin(p)
    \/ ProfileIngest_profile(p)
    \/ ProfileIngest_delete(p)
    \/ ProfileIngest_insert(p)

\* the statements of PolicyDefinitionImporter.ingest
PolicyStatements(p) ==
    \/ PolicyIngest_load(p)
    \/ PolicyIngest_pin(p)
    \/ _ensure_initiative_select(p)
    \/ _ensure_initiative_update(p)
    \/ _ensure_initiative_insert(p)
    \/ _upsert_policies_delete(p)
    \/ _upsert_policies_definition(p)
    \/ _upsert_policies_mapping(p)

Statements(p) ==
    \/ RegistryStatements(p)
    \/ CatalogStatements(p)
    \/ OtherImportStatements(p)

Times == {"t1"}

\* the statements of the project, evidence and parameter calls
OtherStatements(p, times) ==
    \/ ProjectInsert(p)
    \/ _replace_collection_delete(p)
    \/ _replace_collection_insert(p)
    \/ EvidenceIngestFile_pin(p, times)
    \/ ensure_run_insert(p)
    \/ ensure_run_select(p)
    \/ EvidenceIngestFile_upsert(p)
    \/ EvidenceIngestFile_link(p)
    \/ ControlSetParam_project(p)
    \/ ControlSetParam_check(p)
    \/ ControlSetParam_upsert(p)
    \/ ensure_implemented_requirement(p)

Steps(p) == Statements(p) \/ StatementFails(p)

\* one caller, direct ensure_version calls
NextRegistry ==
    \/ CallEnsureVersion(1, RegKeys, RegLabels, RegHashes, RegUris)
    \/ RegistryStatements(1)
    \/ StatementFails(1)

SpecRegistry == Init /\ [][NextRegistry]_vars

\* one caller, catalog imports under one name
NextCatalog ==
    \/ CatalogIngest(1, {s_n1}, CatalogSources, {None, s_pin})
    \/ RegistryStatements(1)
    \/ CatalogStatements(1)
    \/ StatementFails(1)

SpecCatalog == Init /\ [][NextCatalog]_vars

ProfileSources    == {[bytes |-> b, suffixes |-> None] : b \in ProfileBytes}
InitiativeSources == {[bytes |-> b, suffixes |-> s_json] : b \in InitiativeBytes}

\* one caller, the three importers under one name each
NextImport ==
    \/ CatalogIngest(1, {s_n1}, CatalogSources \ {[bytes |-> "cB", suffixes |-> None]},
                     {None, s_pin})
    \/ ProfileIngest(1, {s_n1}, ProfileSources \ {[bytes |-> "pB", suffixes |-> None]},
                     {None})
    \/ PolicyIngest(1, {s_n1}, {[bytes |-> "iA", suffixes |-> s_json]}, {"Gov", "global"})
    \/ Steps(1)

SpecImport == Init /\ [][NextImport]_vars

s_k1 == <<"p", "1">>
s_r1 == <<"1">>

EvidenceSources == {[bytes |-> "e1", suffixes |-> s_json, stem |-> <<"x">>]}

\* one caller, every operation
Next ==
    \/ CallEnsureVersion(1, {<<"catalog", s_n1>>}, {s_v5, s_v51},
                         {compute_sha256("cA")}, {PinTarget([bytes |-> "cA", suffixes |-> None], CatalogsDir, s_n1).dest})
    \/ CatalogIngest(1, {s_n1}, {[bytes |-> b, suffixes |-> None] : b \in {"cA", "cB"}}, {None})
    \/ ProfileIngest(1, {s_n1}, {[bytes |-> "pA", suffixes |-> None]}, {None})
    \/ PolicyIngest(1, {s_n1}, {[bytes |-> "iA", suffixes |-> s_json]}, {"gov"})
    \/ CallProject(1, {"create_project", "upsert_project"}, {s_k1}, {<<"aks">>}, {None})
    \/ EvidenceIngestFile(1, {s_r1}, {"sbom"}, EvidenceSources)
    \/ ControlSetParam(1, {s_k1}, {"AC-1"}, {"ac-1_prm_1", "zz"}, {"v1"})
    \/ Statements(1)
    \/ OtherStatements(1, Times)

Spec == Init /\ [][Next]_vars

\* one caller, every operation and the import of a compliance snapshot
NextFrame ==
    \/ Next
    \/ PolicyStateIngest(1, {s_n1}, {"Gov"}, {[bytes |-> "q2", suffixes |-> s_json]}, {"t1"})
    \/ PolicyStateStatements(1)

SpecFrame == Init /\ [][NextFrame]_vars

\* two callers at once, imports under one name, no failing statement
NextConcurrent ==
    \E p \in Procs :
       \/ CatalogIngest(p, {s_n1}, {[bytes |-> "cA", suffixes |-> None]}, {None, s_pin})
       \/ ProfileIngest(p, {s_n1}, {[bytes |-> "pA", suffixes |-> None]}, {None})
       \/ PolicyIngest(p, {s_n1}, {[bytes |-> "iA", suffixes |-> s_json]}, {"gov"})
       \/ Statements(p)

SpecConcurrent == Init /\ [][NextConcurrent]_vars

PinSources == {[bytes |-> b, suffixes |-> None] : b \in {"e2", "x1", "x2"}}

\* one caller, pins of any source, directory and stem
NextPin ==
    \/ PinSource(1, PinSources, {CatalogsDir, BaselinesDir}, {<<"a">>, <<"b">>})
    \/ PinStatements(1)

SpecPin == Init /\ [][NextPin]_vars

\* two callers at once, pins into one directory under one stem
NextPinRace ==
    \E p \in Procs :
       \/ PinSource(p, {[bytes |-> b, suffixes |-> None] : b \in {"e1", "e2"}},
                    {CatalogsDir}, {<<"a">>})
       \/ PinStatements(p)

SpecPinRace == Init /\ [][NextPinRace]_vars

s_r2 == <<"2">>

SbomSources      == {[bytes |-> b, suffixes |-> s_json, stem |-> <<"x">>] : b \in {"s1"}}
TrivySources     == {[bytes |-> b, suffixes |-> s_json, stem |-> <<"x">>] : b \in {"t1"}}
SignatureSources == {[bytes |-> b, suffixes |-> s_json, stem |-> <<"x">>] : b \in {"g1"}}
EvidenceTimes    == {"t1", "t2"}

\* one caller, a project and the three ingestors, with failing statements
NextEvidence ==
    \/ CallProject(1, {"upsert_project"}, {s_k1}, {<<"aks">>}, {None})
    \/ SbomIngest(1, {s_r1}, SbomSources)
    \/ TrivyIngest(1, {s_r1}, TrivySources, {None})
    \/ SignatureIngest(1, {s_r1}, SignatureSources, {"d1"}, {TRUE})
    \/ Connect(1)
    \/ ProjectStatements(1)
    \/ EvidenceStatements(1, Times)
    \/ IngestorStatements(1)
    \/ Commit(1)
    \/ StatementFails(1)

SpecEvidence == Init /\ [][NextEvidence]_vars

\* the statements of SbomIngestor.ingest
SbomStatements(p) ==
    \/ EvidenceIngestFile_commit(p)
    \/ SbomIngest_parse(p)
    \/ SbomIngest_delete(p)
    \/ SbomIngest_insert(p)

\* the statements of TrivyIngestor.ingest
TrivyStatements(p) ==
    \/ TrivyIngest_parse(p)
    \/ TrivyIngest_delete(p)
    \/ TrivyIngest_insert(p)

\* one caller, a project, SBOM ingestion under two runs and ingest_file of
\* the same content as another kind, with failing statements
NextSbom ==
    \/ CallProject(1, {"upsert_project"}, {s_k1}, {<<"aks">>}, {None})
    \/ SbomIngest(1, {s_r1, s_r2}, SbomSources)
    \/ EvidenceIngestFile(1, {s_r1}, {"trivy"}, SbomSources)
    \/ Connect(1)
    \/ ProjectStatements(1)
    \/ EvidenceStatements(1, EvidenceTimes)
    \/ SbomStatements(1)
    \/ Commit(1)
    \/ StatementFails(1)

SpecSbom == Init /\ [][NextSbom]_vars

\* one caller, a project, SBOM ingestion and Trivy ingestion with and
\* without an artifact hint
NextTrivy ==
    \/ CallProject(1, {"upsert_project"}, {s_k1}, {<<"aks">>}, {None})
    \/ SbomIngest(1, {s_r1}, SbomSources)
    \/ TrivyIngest(1, {s_r1}, TrivySources, {None, <<"h">>})
    \/ Connect(1)
    \/ ProjectStatements(1)
    \/ EvidenceStatements(1, Times)
    \/ SbomStatements(1)
    \/ TrivyStatements(1)
    \/ Commit(1)

SpecTrivy == Init /\ [][NextTrivy]_vars

\* two callers at once, catalog imports of two contents under one name
NextRace ==
    \E p \in Procs :
       \/ CatalogIngest(p, {s_n1}, {[bytes |-> b, suffixes |-> None] : b \in {"cA", "cB"}},
                        {None, s_pin})
       \/ RegistryStatements(p)
       \/ CatalogStatements(p)

SpecRace == Init /\ [][NextRace]_vars

TypeOK == pc \in [Procs -> InTx \cup {"idle", "connect", "cat_load", "cat_pin", "pst_load", "mig_discover", "mig_check",
                                      "prof_load", "prof_pin", "pol_load", "pol_pin",
                                      "evi_pin", "param_project", "param_check", "svc_commit",
                                      "sbom_parse", "trivy_parse", "sig_parse",
                                      "pin_digest", "pin_exists", "pin_open",
                                      "pin_write", "pin_stat"}]

\* the profiles with a `matching` selector, next to two that import
MatchingBytes == {"pMatch", "pMatch2", "pMatch3", "pMatch4"}

BaselineSources == {[bytes |-> b, suffixes |-> None] : b \in {"pA", "pB"} \cup MatchingBytes}

\* one caller, baseline imports under two profile names
NextBaseline ==
    \/ ProfileIngest(1, {s_n1, s_n2}, BaselineSources \cup {[bytes |-> "pA", suffixes |-> s_txt]},
                     {None})
    \/ RegistryStatements(1)
    \/ ProfileStatements(1)

SpecBaseline == Init /\ [][NextBaseline]_vars

\* one caller, policy-initiative imports under two names and two scopes
NextPolicy ==
    \/ PolicyIngest(1, {s_n1, s_n2}, InitiativeSources \cup {[bytes |-> "iA", suffixes |-> s_txt]},
                    {"gov", "Commercial"})
    \/ RegistryStatements(1)
    \/ PolicyStatements(1)

SpecPolicy == Init /\ [][NextPolicy]_vars

StateSources == {[bytes |-> b] : b \in {"q1", "q2", "q3", "q4"}}

\* one caller, one initiative import and policy-state imports for it and
\* for an initiative that was not imported
NextPolicyState ==
    \/ PolicyIngest(1, {s_n1}, {[bytes |-> "iA", suffixes |-> x] : x \in {s_json, s_txt}}, {"gov"})
    \/ PolicyStateIngest(1, {s_n1, s_n2}, {"Gov"}, StateSources, {"t1", "t2"})
    \/ RegistryStatements(1)
    \/ PolicyStatements(1)
    \/ PolicyStateStatements(1)

SpecPolicyState == Init /\ [][NextPolicyState]_vars

\* the statements of MigrationRunner.apply; the exit of the with block of
\* get_connection is the commit
MigrationStatements(p) ==
    \/ MigrationApply_discover(p)
    \/ Connect(p)
    \/ MigrationApply_select(p)
    \/ MigrationApply_check(p)
    \/ MigrationApply_execute(p)
    \/ MigrationApply_record(p)
    \/ Commit(p)

s_f0 == <<"0", ".", "m", "d">>
s_f1 == <<"1", ".", "s", "q", "l">>
s_f2 == <<"2", ".", "s", "q", "l">>

\* one caller, apply() calls over a directory that gets new and edited files
NextMigrate ==
    \/ WriteMigration({s_f0, s_f1, s_f2}, {"m1", "m2"})
    \/ MigrationApply(1)
    \/ MigrationStatements(1)
    \/ StatementFails(1)

SpecMigrate == Init /\ [][NextMigrate]_vars

\* one caller, catalog imports under two names
NextCatalogNames ==
    \/ CatalogIngest(1, {s_n1, s_n2}, {[bytes |-> b, suffixes |-> None] : b \in {"cA", "cB"}},
                     {None, s_pin})
    \/ RegistryStatements(1)
    \/ CatalogStatements(1)
    \/ StatementFails(1)

SpecCatalogNames == Init /\ [][NextCatalogNames]_vars

ParseSources ==
    {[bytes |-> b, suffixes |-> None] :
        b \in {"pA", "pB", "pDup", "pNone", "pEmpty", "pNoKey", "pMatch"}}
       \cup {[bytes |-> "pA", suffixes |-> s_txt]}

\* one caller, baseline imports of every shape of profile
NextProfileParse ==
    \/ ProfileIngest(1, {s_n1}, ParseSources, {None})
    \/ RegistryStatements(1)
    \/ ProfileStatements(1)

SpecProfileParse == Init /\ [][NextProfileParse]_vars

ParseCatalogs ==
    {[bytes |-> b, suffixes |-> None] : b \in {"cA", "cB", "cNoId", "cNoKey", "cDeep", "cSub"}}

\* one caller, catalog imports of every shape of catalog
NextCatalogParse ==
    \/ CatalogIngest(1, {s_n1}, ParseCatalogs, {None, s_pin})
    \/ RegistryStatements(1)
    \/ CatalogStatements(1)

SpecCatalogParse == Init /\ [][NextCatalogParse]_vars

\* one caller, one initiative import and policy-state imports of every
\* top-level shape of snapshot
NextStateParse ==
    \/ PolicyIngest(1, {s_n1}, {[bytes |-> "iA", suffixes |-> x] : x \in {s_json, s_txt}}, {"gov"})
    \/ PolicyStateIngest(1, {s_n1}, {"Gov"}, StateSources \cup {[bytes |-> "q5"]}, {"t1"})
    \/ RegistryStatements(1)
    \/ PolicyStatements(1)
    \/ PolicyStateStatements(1)

SpecStateParse == Init /\ [][NextStateParse]_vars

\* the statements of control_set_param and of set_parameter
ParamStatements(p) ==
    \/ ControlSetParam_project(p)
    \/ ControlSetParam_check(p)
    \/ ControlSetParam_upsert(p)
    \/ ensure_implemented_requirement(p)
    \/ SetParameter_exit(p)
    \/ SetParameter_commit(p)

\* one caller: a catalog, a project, and parameter values set on the
\* command line and through the backend service
NextParam ==
    \/ CatalogIngest(1, {s_n1}, {[bytes |-> "cA", suffixes |-> None]}, {None, s_pin})
    \/ CallProject(1, {"upsert_project"}, {s_k1}, {<<"aks">>}, {None})
    \/ ControlSetParam(1, {s_k1, s_n1}, {"AC-1", "AC-2"}, {"ac-1_prm_1", "zz"}, {"v1", "v2"})
    \/ SetParameter(1, {s_k1, s_n1}, {"AC-1", "AC-2"}, {"ac-1_prm_1", "zz"}, {"v1", "v2"})
    \/ RegistryStatements(1)
    \/ CatalogStatements(1)
    \/ ProjectStatements(1)
    \/ ParamStatements(1)

SpecParam == Init /\ [][NextParam]_vars

\* two callers at once: a project, then SBOM and Trivy ingestions of one
\* content each for one run
NextChildRace ==
    \/ CallProject(1, {"upsert_project"}, {s_k1}, {<<"aks">>}, {None})
    \/ ProjectStatements(1)
    \/ \E p \in Procs :
          \/ SbomIngest(p, {s_r1}, SbomSources)
          \/ TrivyIngest(p, {s_r1}, TrivySources, {None})
          \/ Connect(p)
          \/ EvidenceStatements(p, {"t1"})
          \/ SbomStatements(p)
          \/ TrivyStatements(p)
          \/ Commit(p)

SpecChildRace == Init /\ [][NextChildRace]_vars

\* one caller, policy-initiative imports of two contents under one name
\* for both scopes
NextScopes ==
    \/ PolicyIngest(1, {s_n1}, InitiativeSources \cup {[bytes |-> "iA", suffixes |-> s_txt]},
                    {"gov", "Commercial"})
    \/ RegistryStatements(1)
    \/ PolicyStatements(1)

SpecScopes == Init /\ [][NextScopes]_vars

\* two callers at once: a project, then ingest_file of one content for two
\* runs, with failing statements
NextRunRace ==
    \/ CallProject(1, {"upsert_project"}, {s_k1}, {<<"aks">>}, {None})
    \/ ProjectStatements(1)
    \/ \E p \in Procs :
          \/ EvidenceIngestFile(p, {s_r1, s_r2}, {"sbom"}, EvidenceSources)
          \/ Connect(p)
          \/ EvidenceStatements(p, {"t1"})
          \/ Commit(p)
          \/ StatementFails(p)

SpecRunRace == Init /\ [][NextRunRace]_vars

-----------------------------------------------------------------------------
(* Properties *)

Registered(rows, kind, name) == {r \in rows : r.kind = kind /\ r.name = name}

IsVersionConflict(result) == ~result.ok /\ result.what = "already exists with hash"

\* a statement failed in the database (not a decision of the code)
IsStatementFailure(result) == ~result.ok /\ result.what = "statement failed"

\* the call of caller 1 ends in this step
Ends == pc[1] # "idle" /\ pc'[1] = "idle"

\* C1: the content_hash stored for a (kind, name) pair is the content_hash
\* of the call that created the pair, and no later call changes it.
C1_HashPinned ==
    [][\A r2 \in db'.version_registry :
          LET before == Registered(db.version_registry, r2.kind, r2.name)
          IN  IF before # {}
                 THEN \A r \in before : r2.content_hash = r.content_hash
                 ELSE /\ pc[1] = "commit"
                      /\ loc[1].op = "ensure_version"
                      /\ r2.kind = loc[1].ev.kind /\ r2.name = loc[1].ev.name
                      /\ r2.content_hash = loc[1].ev.content_hash]_vars

\* a later call supplied another hash for a pinned pair and the pair kept its own
C1_Witness ==
    /\ ret[1].call.op = "ensure_version"
    /\ ~ret[1].result.ok
    /\ \E r \in Registered(db.version_registry, ret[1].call.args.kind, ret[1].call.args.name) :
          r.content_hash # ret[1].call.args.content_hash

\* C2: ensure_version for a pair pinned with a different content_hash fails
\* with the conflict error naming the existing hash (unless the SELECT itself
\* fails in the database) and leaves the stored record unchanged.
C2_ConflictRejected ==
    [][(loc[1].op = "ensure_version" /\ pc[1] = "ev_select")
       => \A r \in Registered(db.version_registry, loc[1].ev.kind, loc[1].ev.name) :
             r.content_hash # loc[1].ev.content_hash
             => /\ pc'[1] = "idle"
                /\ \/ IsStatementFailure(ret'[1].result)
                   \/ /\ IsVersionConflict(ret'[1].result)
                      /\ ret'[1].result.detail = r.content_hash
                /\ db' = db
                /\ tx'[1] = NoTx]_vars

C2_Witness ==
    /\ ret[1].call.op = "ensure_version"
    /\ IsVersionConflict(ret[1].result)
    /\ \E r \in Registered(db.version_registry, ret[1].call.args.kind, ret[1].call.args.name) :
          /\ r.content_hash = ret[1].result.detail
          /\ r.content_hash # ret[1].call.args.content_hash

\* C3: ensure_version for a pinned pair with the same content_hash and a
\* changed version label or source_uri returns a record whose label and
\* source_uri are the ones now stored.
C3_ReturnsStoredRecord ==
    (ret[1].call.op = "ensure_version" /\ ret[1].result.ok)
    => \E r \in db.version_registry :
          /\ r.id = ret[1].result.value.id
          /\ r.content_hash = ret[1].result.value.content_hash
          /\ r.version = ret[1].result.value.version
          /\ r.source_uri = ret[1].result.value.source_uri

\* C6: importing the same catalog bytes again under the same name succeeds
\* (unless a statement fails in the database), returns the VersionRecord id
\* of the first import, and leaves content_hash and the catalog_controls
\* rows as the first import left them.
C6_ReimportIdempotent ==
    [][(/\ loc[1].op = "catalog" /\ Ends
        /\ ret[1].call.op = "catalog" /\ ret[1].result.ok
        /\ ret[1].call.args.name = loc[1].args.name
        /\ ret[1].call.args.source.bytes = loc[1].args.source.bytes)
       => \/ IsStatementFailure(ret'[1].result) /\ db' = db
          \/ /\ ret'[1].result.ok
             /\ ret'[1].result.value.version.id = ret[1].result.value.version.id
             /\ \A r \in Registered(db'.version_registry, "catalog", loc[1].args.name) :
                   /\ r.id = ret[1].result.value.version.id
                   /\ r.content_hash = ret[1].result.value.version.content_hash
             /\ db'.catalog_controls = db.catalog_controls]_vars

\* a second import returned the record of the row the first one created
C6_Witness ==
    /\ ret[1].call.op = "catalog" /\ ret[1].result.ok
    /\ ret[1].result.value.version.source_uri # ret[1].result.value.pinned_path
    /\ db.catalog_controls # {}

\* C7: importing a catalog under an existing name with different bytes
\* fails with the conflict error (unless a statement fails first) and leaves
\* version_registry and catalog_controls as they were.
C7_ConflictingImportRejected ==
    [][(/\ loc[1].op = "catalog" /\ Ends
        /\ load_catalog(loc[1].args.source.bytes).ok
        /\ \E r \in Registered(db.version_registry, "catalog", loc[1].args.name) :
              r.content_hash # compute_sha256(loc[1].args.source.bytes))
       => /\ IsVersionConflict(ret'[1].result) \/ IsStatementFailure(ret'[1].result)
          /\ db' = db]_vars

C7_Witness ==
    /\ ret[1].call.op = "catalog"
    /\ IsVersionConflict(ret[1].result)
    /\ \E r \in Registered(db.version_registry, "catalog", ret[1].call.args.name) :
          /\ r.content_hash = ret[1].result.detail
          /\ r.content_hash # compute_sha256(ret[1].call.args.source.bytes)
    /\ db.catalog_controls # {}

Importers == {"catalog", "baseline", "policy_initiative"}

\* the statements an importer runs after ensure_version returned
AfterEnsureLabels ==
    {"cat_upsert", "prof_profile", "prof_delete", "prof_insert",
     "pol_select", "pol_update", "pol_insert", "pol_delete",
     "pol_definition", "pol_mapping", "commit"}

\* C8: when a statement of an importer fails after ensure_version succeeded,
\* nothing of the transaction is committed; rows are committed only by the
\* commit that ends a successful import.
C8_UpsertFailureRollsBack ==
    /\ [][(/\ loc[1].op \in Importers
           /\ pc[1] \in AfterEnsureLabels
           /\ pc'[1] = "idle" /\ ~ret'[1].result.ok)
          => db' = db /\ tx'[1] = NoTx]_vars
    /\ [][db' # db => pc[1] = "commit" /\ ret'[1].result.ok]_vars

\* a baseline import failed after it had inserted its profile row
C8_Witness ==
    /\ ret[1].call.op = "baseline"
    /\ IsStatementFailure(ret[1].result)
    /\ seq.baseline_profiles > Cardinality(db.baseline_profiles)
    /\ seq.version_registry > Cardinality(db.version_registry)

Parsed(l)  == l.document # EmptyObj
Pinned(l)  == l.pinned_path # EmptyObj
Ensured(l) == l.version # EmptyObj

ParseOf(l) ==
    CASE l.op = "catalog" -> load_catalog(l.args.source.bytes)
      [] l.op = "baseline" -> load_profile(l.args.source.bytes)
      [] l.op = "policy_initiative" -> load_initiative(l.args.source.bytes)

\* C10: an import whose source document does not parse ends with the
\* parser's error before it writes anything: no row, no pinned file.
C10_ParseFailureWritesNothing ==
    [][(loc[1].op \in Importers /\ ~ParseOf(loc[1]).ok)
       => /\ pc'[1] = "idle"
          /\ ret'[1].result = ParseOf(loc[1])
          /\ db' = db /\ fs' = fs /\ seq' = seq /\ tx' = tx]_vars

ParseErrors == {"no top-level catalog", "control without id", "no top-level profile",
                "no control identifiers", "matching not supported"}

\* a parse failure after an earlier import: the earlier pin is the only file
C10_Witness ==
    /\ ret[1].call.op \in Importers
    /\ ~ret[1].result.ok /\ ret[1].result.what \in ParseErrors
    /\ fs # <<>>
    /\ PinTarget(ret[1].call.args.source,
                 IF ret[1].call.op = "catalog" THEN CatalogsDir ELSE BaselinesDir,
                 slugify(ret[1].call.args.pinned_name, ret[1].call.args.name)).dest
          \notin DOMAIN fs

\* the calls that reach ensure_version
CallsEnsureVersion == Importers \cup {"ensure_version"}

\* C4: in every step of every operation (importers, evidence ingestion,
\* parameters, projects) a pinned (kind, name) pair stays pinned; a pair
\* becomes pinned only by the commit of a call that ran ensure_version for
\* it, and that commit on an absent pair adds exactly one record, which
\* carries the label, content hash and source URI the call supplied.
C4_AbsentToPinnedOnly ==
    [][/\ \A r \in db.version_registry :
             Registered(db'.version_registry, r.kind, r.name) # {}
       /\ \A r2 \in db'.version_registry :
             Registered(db.version_registry, r2.kind, r2.name) = {}
             => /\ pc[1] = "commit"
                /\ loc[1].op \in CallsEnsureVersion
                /\ r2.kind = loc[1].ev.kind /\ r2.name = loc[1].ev.name
       /\ (/\ pc[1] = "commit" /\ pc'[1] = "idle" /\ ret'[1].result.ok
           /\ loc[1].op \in CallsEnsureVersion
           /\ Registered(db.version_registry, loc[1].ev.kind, loc[1].ev.name) = {})
          => \E r2 \in db'.version_registry :
                /\ r2 \notin db.version_registry
                /\ db'.version_registry = db.version_registry \cup {r2}
                /\ r2.kind = loc[1].ev.kind /\ r2.name = loc[1].ev.name
                /\ r2.version = loc[1].ev.version
                /\ r2.content_hash = loc[1].ev.content_hash
                /\ r2.source_uri = loc[1].ev.source_uri]_vars

\* an import pinned a pair, and project, evidence and parameter calls were
\* committed while it was pinned
C4_Witness ==
    /\ Registered(db.version_registry, "catalog", s_n1) # {}
    /\ Registered(db.version_registry, "baseline", s_n1) # {}
    /\ db.parameter_values # {}
    /\ db.run_evidence # {}
    /\ db.project_services # {}
    /\ ret[1].result.ok

\* C5: version_registry never holds two records of one (kind, name), also
\* when two imports of a new pair both find it absent before either inserts.
C5_OneRecordPerKey ==
    \A r1, r2 \in db.version_registry :
       (r1.kind = r2.kind /\ r1.name = r2.name) => r1 = r2

\* both callers found the pair absent; one committed its insert and the
\* other's INSERT was refused
C5_Witness ==
    \E p, q \in Procs :
       /\ p # q
       /\ ret[p].call.op = "catalog" /\ ret[p].result.ok
       /\ ret[q].call.op = "catalog" /\ ~ret[q].result.ok
       /\ ret[q].result.type = "UniqueViolation"
       /\ Cardinality(Registered(db.version_registry, "catalog", s_n1)) = 1

\* C11: of two concurrent catalog imports of one (kind, name) with different
\* content, the one that commits leaves its own registry record and its own
\* control rows, and the other ends with the conflict error (the unique
\* violation translated to it, or the hash mismatch) and writes nothing.
C11_LoserGetsConflictError ==
    [][\A p \in Procs :
          (pc[p] # "idle" /\ pc'[p] = "idle")
          => IF ret'[p].result.ok
                THEN /\ \A r \in Registered(db'.version_registry, loc[p].ev.kind, loc[p].ev.name) :
                           r.content_hash = loc[p].ev.content_hash
                     /\ \A i \in 1..Len(loc[p].document.controls) :
                           CatalogControlRow(loc[p].document.controls[i], loc[p].version.id)
                              \in db'.catalog_controls
                ELSE /\ IsVersionConflict(ret'[p].result)
                     /\ db' = db]_vars

\* the call in progress repeats the arguments of the call that ended last
Repeats(p) ==
    /\ loc[p].op = "pin_source_file"
    /\ ret[p].call.op = "pin_source_file"
    /\ ret[p].call.args = loc[p].args

\* C12: a pin_source_file call with the source content, directory and stem
\* of the call before it copies nothing, leaves every pinned file as it is,
\* and returns the path and digest the first call returned.
C12_PinIdempotent ==
    [][Repeats(1)
       => /\ fs' = fs
          /\ pc[1] \notin {"pin_open", "pin_write"}
          /\ pc'[1] = "idle"
             => /\ ret'[1].result.value.path = ret[1].result.value.path
                /\ ret'[1].result.value.digest = ret[1].result.value.digest]_vars

\* the second of two equal calls is about to return
C12_Witness ==
    /\ Repeats(1)
    /\ pc[1] = "pin_stat"
    /\ fs[loc[1].pinned_path] = loc[1].args.source.bytes

\* a file the caller is not in the middle of copying
Complete(q) == ~(pc[1] = "pin_write" /\ loc[1].pinned_path = q)

\* C13: through any sequence of pins a pinned file, once written, stays in
\* place with the content it was written with.
C13_PinnedFilesImmutable ==
    [][\A q \in DOMAIN fs :
          Complete(q) => q \in DOMAIN fs' /\ fs'[q] = fs[q]]_vars

\* a pin of another content resolved to the path of a pinned file and the
\* file kept its content
C13_Witness ==
    /\ ret[1].call.op = "pin_source_file"
    /\ ret[1].result.value.path \in DOMAIN fs
    /\ fs[ret[1].result.value.path] # ret[1].call.args.source.bytes
    /\ pc[1] = "idle"

\* C14: two concurrent pins of one content under one stem and directory
\* return the path and digest of that content, the caller's size read that
\* follows sees the whole file, and once both have returned the file holds
\* exactly the content.
C14_ConcurrentPinsSeeWholeFile ==
    [][\A p \in Procs :
          (pc[p] = "pin_stat" /\ pc'[p] = "idle")
          => LET a      == loc[p].args
                 target == PinTarget(a.source, a.dest_dir, a.stem)
                 value  == ret'[p].result.value
             IN  /\ value.path = target.dest
                 /\ value.digest = target.digest
                 /\ value.size_bytes = SizeOf(a.source.bytes)
                 /\ (\A q \in Procs : pc'[q] = "idle")
                    => fs'[target.dest] = a.source.bytes]_vars

\* C15: the file at the path a pin returned has the digest the pin returned
\* (two contents never share a destination path).
C15_PathHasReturnedDigest ==
    (ret[1].call.op = "pin_source_file" /\ pc[1] = "idle")
    => compute_sha256(fs[ret[1].result.value.path]) = ret[1].result.value.digest

\* the rows of a child table that belong to an evidence id
ChildRows(rows, id) == {r \in rows : r.evidence_fk = id}

\* the commit that ends a successful call of one of `ops`
Commits(ops) ==
    pc[1] = "commit" /\ loc[1].op \in ops /\ pc'[1] = "idle" /\ ret'[1].result.ok

\* C16: a successful SBOM ingestion leaves one evidence_files row for the
\* content hash, one run_evidence link of it to the run, and as many
\* sbom_components rows as the document has components; ingesting the same
\* content again for the same project and run returns the same evidence id
\* and the same count.
C16_SbomReingestIdempotent ==
    [][Commits({"sbom"})
       => LET a     == loc[1].args
              n     == Len(Get(Json(a.source.bytes), "components", <<>>))
              value == ret'[1].result.value
              id    == value.evidence.id
          IN  /\ value.count = n
              /\ Cardinality(ChildRows(db'.sbom_components, id)) = n
              /\ {r \in db'.evidence_files :
                    r.content_hash = compute_sha256(a.source.bytes)}
                 = {r \in db'.evidence_files : r.id = id}
              /\ Cardinality({r \in db'.evidence_files : r.id = id}) = 1
              /\ Cardinality({r \in db'.run_evidence :
                                r.evidence_fk = id /\ r.run_fk = value.evidence.run_fk}) = 1
              /\ (ret[1].call = [op |-> "sbom", args |-> a] /\ ret[1].result.ok)
                 => /\ value.evidence.id = ret[1].result.value.evidence.id
                    /\ value.count = ret[1].result.value.count]_vars

\* the second of two equal SBOM ingestions has replaced the component rows
\* and is about to commit
C16_Witness ==
    /\ pc[1] = "commit"
    /\ ret[1].call = [op |-> "sbom", args |-> loc[1].args]
    /\ ret[1].result.ok
    /\ tx[1].del.sbom_components # {}
    /\ Cardinality(tx[1].ins.sbom_components) = 2

\* the commit of the transaction of ingest_file
CommitsEvidence ==
    \/ pc[1] = "evi_commit" /\ pc'[1] = "connect"
    \/ Commits({"ingest_file"})

\* C17: evidence_files holds one row per content_hash; an ingestion of a
\* content that has a row (under any run, project or kind) adds none, keeps
\* the id, and leaves kind, file_path, size_bytes, collected_at and run_id
\* as the latest call gave them.
C17_OneEvidenceRowPerHash ==
    /\ [](\A r1, r2 \in db.evidence_files : r1.content_hash = r2.content_hash => r1 = r2)
    /\ [][CommitsEvidence
          => LET a    == loc[1].args
                 hash == compute_sha256(a.source.bytes)
                 old  == {r \in db.evidence_files : r.content_hash = hash}
                 new  == {r \in db'.evidence_files : r.content_hash = hash}
             IN  /\ Cardinality(new) = 1
                 /\ db'.evidence_files \ new = db.evidence_files \ old
                 /\ \A r \in new :
                       /\ \A o \in old : r.id = o.id
                       /\ r.kind = a.kind
                       /\ r.run_id = a.run_id
                       /\ r.file_path = PinTarget(a.source, RunDir(a.project.key, a.run_id),
                                                  a.project.key \o <<"-">> \o a.run_id
                                                     \o <<"-">> \o a.source.stem).dest
                       /\ r.size_bytes = SizeOf(a.source.bytes)
                       /\ r.collected_at = loc[1].row.collected_at]_vars

\* a content ingested as an SBOM under one run was ingested again as another
\* kind, and under another run: one row, the first id, the latest values
C17_Witness ==
    \E r \in db.evidence_files :
       /\ r.id = 1 /\ r.kind = "trivy" /\ r.collected_at = "t2"
       /\ ChildRows(db.sbom_components, r.id) # {}
       /\ Cardinality({l \in db.run_evidence : l.evidence_fk = r.id}) = 2
       /\ Cardinality(db.evidence_files) = 1

\* C18: runs holds one row per (project_fk, run_id); a row is added only by
\* the commit of an evidence ingestion, for the run of that call, and a
\* committed ingestion returns the id of the one row of its run, which is
\* the row that was there before when there was one.
C18_OneRunPerKey ==
    /\ [](\A r1, r2 \in db.runs :
             (r1.project_fk = r2.project_fk /\ r1.run_id = r2.run_id) => r1 = r2)
    /\ [][/\ db'.runs # db.runs
             => /\ Commits({"ingest_file"})
                /\ \E r \in db'.runs :
                      /\ r \notin db.runs
                      /\ db'.runs = db.runs \cup {r}
                      /\ r.project_fk = loc[1].args.project.id
                      /\ r.run_id = loc[1].args.run_id
          /\ Commits({"ingest_file"})
             => LET a   == loc[1].args
                    old == {r \in db.runs : r.project_fk = a.project.id /\ r.run_id = a.run_id}
                    new == {r \in db'.runs : r.project_fk = a.project.id /\ r.run_id = a.run_id}
                IN  /\ new = {r \in db'.runs : r.id = ret'[1].result.value.run_fk}
                    /\ old # {} => new = old]_vars

\* a later ingestion for a run that has its row is about to commit with the
\* id of that row
C18_Witness ==
    /\ pc[1] = "commit" /\ loc[1].op = "ingest_file"
    /\ tx[1].ins.runs = {}
    /\ \E r \in db.runs :
          /\ r.id = loc[1].fk
          /\ r.project_fk = loc[1].args.project.id /\ r.run_id = loc[1].args.run_id

\* the child rows the committed evidence row r calls for are in place
ChildrenReflect(r) ==
    LET bytes == fs[r.file_path]
    IN  CASE r.kind = "sbom" ->
               Cardinality(ChildRows(db.sbom_components, r.id))
                  = Len(parse_cyclonedx(bytes).value)
          [] r.kind = "trivy" ->
               Cardinality(ChildRows(db.trivy_findings, r.id))
                  = Len(parse_trivy_report(bytes).value)
          [] r.kind = "signature" -> ChildRows(db.signatures, r.id) # {}
          [] OTHER -> TRUE

\* C19: an SBOM, Trivy or signature ingestion is one transaction: when no
\* call is in progress every committed evidence_files row has the child rows
\* of its call, also after a call that failed.
C19_IngestionAllOrNothing ==
    pc[1] = "idle" => \A r \in db.evidence_files : ChildrenReflect(r)

\* the findings a Trivy call parses, with its artifact hint applied
HintedFindings(a) ==
    LET findings == parse_trivy_report(a.source.bytes).value
    IN  [i \in 1..Len(findings) |->
           IF findings[i].artifact = None /\ a.artifact_hint # None
              THEN [findings[i] EXCEPT !.artifact = a.artifact_hint]
              ELSE findings[i]]

\* the columns of a trivy_findings row that come from the finding
FindingOf(r) ==
    [cve_id |-> r.cve_id, severity |-> r.severity, pkg |-> r.pkg,
     installed_version |-> r.installed_version, fixed_version |-> r.fixed_version,
     artifact |-> r.artifact, path |-> r.path]

\* the columns of an sbom_components row that come from the component
ComponentOf(r) ==
    [name |-> r.name, version |-> r.version, purl |-> r.purl, licenses |-> r.licenses]

\* C20: after a successful SBOM or Trivy ingestion the child rows of the
\* returned evidence id are the components or findings parsed in that call,
\* one row each, and the returned count is their number; findings of an
\* earlier call with another artifact hint are gone.
C20_ChildRowsAreLatestParse ==
    [][Commits({"sbom", "trivy"})
       => LET a      == loc[1].args
              value  == ret'[1].result.value
              parsed == IF loc[1].op = "trivy" THEN HintedFindings(a)
                        ELSE [i \in 1..Len(parse_cyclonedx(a.source.bytes).value) |->
                                [parse_cyclonedx(a.source.bytes).value[i]
                                    EXCEPT !.licenses = Join(@)]]
              rows   == IF loc[1].op = "trivy"
                           THEN ChildRows(db'.trivy_findings, value.evidence.id)
                           ELSE ChildRows(db'.sbom_components, value.evidence.id)
              of(r)  == IF loc[1].op = "trivy" THEN FindingOf(r) ELSE ComponentOf(r)
          IN  /\ value.count = Len(parsed)
              /\ Cardinality(rows) = Len(parsed)
              /\ \A r \in rows : \E i \in 1..Len(parsed) : of(r) = parsed[i]
              /\ \A i \in 1..Len(parsed) : \E r \in rows : of(r) = parsed[i]]_vars

\* a report ingested without a hint is ingested again with one and the
\* second call is about to commit
C20_Witness ==
    /\ pc[1] = "commit" /\ loc[1].op = "trivy"
    /\ loc[1].args.artifact_hint # None
    /\ ret[1].call.op = "trivy" /\ ret[1].result.ok
    /\ ret[1].call.args = [loc[1].args EXCEPT !.artifact_hint = None]
    /\ tx[1].del.trivy_findings # {}

\* C21: after a successful baseline import of profile P there is one
\* baseline_profiles row for P whose profile_version_ref is the id of the
\* returned VersionRecord, the baseline_controls rows of P are the control
\* ids parsed from the imported document, and the rows and memberships of
\* the other profiles are as before.
C21_BaselineMembershipReplaced ==
    [][Commits({"baseline"})
       => LET a     == loc[1].args
              ids   == Range(load_profile(a.source.bytes).value.control_ids)
              value == ret'[1].result.value
              new   == {r \in db'.baseline_profiles : r.profile_name = a.name}
              old   == {r \in db.baseline_profiles : r.profile_name = a.name}
          IN  /\ Cardinality(new) = 1
              /\ db'.baseline_profiles \ new = db.baseline_profiles \ old
              /\ \A r \in new :
                    /\ r.profile_version_ref = value.version.id
                    /\ {c.control_id : c \in {m \in db'.baseline_controls : m.profile_id = r.id}}
                       = ids
                    /\ {m \in db'.baseline_controls : m.profile_id # r.id}
                       = {m \in db.baseline_controls : m.profile_id # r.id}
              /\ \E v \in Registered(db'.version_registry, "baseline", a.name) :
                    v.id = value.version.id]_vars

\* a profile is about to be committed with its memberships while another
\* profile has memberships of its own
C21_Witness ==
    /\ pc[1] = "commit" /\ loc[1].op = "baseline"
    /\ tx[1].ins.baseline_controls # {}
    /\ \E r \in db.baseline_profiles :
          /\ r.profile_name # loc[1].args.name
          /\ \E m \in db.baseline_controls : m.profile_id = r.id

\* some include-controls entry of the profile has a `matching` selector
HasMatching(bytes) ==
    LET includes == Includes(Get(Get(Json(bytes), "profile", EmptyObj), "imports", <<>>))
    IN  \E i \in 1..Len(includes) : "matching" \in DOMAIN includes[i]

\* C30: a baseline import of a profile in which some include-controls entry
\* has a `matching` selector ends with the format error of the parser
\* (the ValueError the parsers raise for a document they do not accept),
\* whether or not entries list with-ids, and imports nothing.
C30_MatchingFailsWithFormatError ==
    [][(pc[1] = "prof_load" /\ HasMatching(loc[1].args.source.bytes))
       => /\ pc'[1] = "idle"
          /\ ~ret'[1].result.ok
          /\ ret'[1].result.type = "ValueError"
          /\ db' = db /\ fs' = fs /\ seq' = seq /\ tx' = tx]_vars

\* the (control_id, policy_definition_id) pairs of an initiative document
MappingPairs(policies) ==
    UNION {{<<policies[i].control_ids[j], policies[i].policy_definition_id>> :
              j \in 1..Len(policies[i].control_ids)} : i \in 1..Len(policies)}

\* C22: after a successful policy-initiative import for (name, scope) there
\* is one policy_initiatives row for the pair, with the id of the returned
\* VersionRecord as its version ref; its policy_mappings rows are the
\* (control_id, policy_definition_id) pairs of the imported document; the
\* other initiatives and their mappings are as before; and every policy
\* definition of the document has one row, with the display name and the
\* category of this import.
C22_InitiativeMappingsReplaced ==
    [][Commits({"policy_initiative"})
       => LET a        == loc[1].args
              policies == load_initiative(a.source.bytes).value.policies
              value    == ret'[1].result.value
              mine(r)  == r.initiative_id = a.name /\ r.scope = LowerScope(a.scope)
              new      == {r \in db'.policy_initiatives : mine(r)}
              old      == {r \in db.policy_initiatives : mine(r)}
          IN  /\ Cardinality(new) = 1
              /\ db'.policy_initiatives \ new = db.policy_initiatives \ old
              /\ \A r \in new :
                    /\ r.initiative_version_ref = value.version.id
                    /\ {<<m.control_id, m.policy_definition_fk>> :
                          m \in {n \in db'.policy_mappings : n.initiative_fk = r.id}}
                       = MappingPairs(policies)
                    /\ {m \in db'.policy_mappings : m.initiative_fk # r.id}
                       = {m \in db.policy_mappings : m.initiative_fk # r.id}
              /\ \A i \in 1..Len(policies) :
                    {d \in db'.policy_definitions :
                       d.policy_definition_id = policies[i].policy_definition_id}
                    = {[policy_definition_id |-> policies[i].policy_definition_id,
                        display_name |-> policies[i].display_name,
                        category |-> policies[i].category]}]_vars

\* an import is about to commit that renames a policy definition another
\* initiative with mappings of its own refers to
C22_Witness ==
    /\ pc[1] = "commit" /\ loc[1].op = "policy_initiative"
    /\ tx[1].del.policy_definitions # {}
    /\ tx[1].del.policy_definitions # tx[1].ins.policy_definitions
    /\ \E r \in db.policy_initiatives :
          /\ r.id # loc[1].fk
          /\ \E m \in db.policy_mappings : m.initiative_fk = r.id

\* no policy_initiatives row for the pair of the running policy-state call
InitiativeMissing ==
    \A r \in db.policy_initiatives :
       ~(r.initiative_id = loc[1].args.name /\ r.scope = LowerScope(loc[1].args.scope))

IsNotFound(result) == ~result.ok /\ result.what = "initiative not found"

IsFormatError(result) ==
    ~result.ok /\ result.type = "ValueError" /\ result.what = "unsupported policy state payload"

\* C23 as stated: a policy-state import for an (initiative name, scope)
\* without a policy_initiatives row ends with the not-found error (or with
\* the failure of the database) and leaves policy_states as it was.
C23_MissingInitiativeNotFound ==
    [][(Ends /\ loc[1].op = "policy_states" /\ InitiativeMissing)
       => /\ IsNotFound(ret'[1].result) \/ IsStatementFailure(ret'[1].result)
          /\ db'.policy_states = db.policy_states]_vars

\* C23: a policy-state import for an (initiative name, scope) without a
\* policy_initiatives row fails and leaves policy_states as it was: with the
\* format error of the parser when the snapshot is not of a supported
\* shape, because the snapshot is parsed before the initiative is looked
\* up, and with the not-found error otherwise (or with the failure of the
\* database).
C23_MissingInitiativeFails ==
    [][(Ends /\ loc[1].op = "policy_states" /\ InitiativeMissing)
       => /\ IF load_policy_states(loc[1].args.source.bytes).ok
                THEN IsNotFound(ret'[1].result) \/ IsStatementFailure(ret'[1].result)
                ELSE IsFormatError(ret'[1].result)
          /\ db' = db]_vars

\* states of an initiative are stored and an import for an initiative that
\* was not imported has ended with the not-found error
C23_Witness ==
    /\ ret[1].call.op = "policy_states"
    /\ IsNotFound(ret[1].result)
    /\ db.policy_states # {}
    /\ \A r \in db.policy_initiatives : r.initiative_id # ret[1].call.args.name

\* the controls an initiative maps to a policy definition
MappedControls(rows, fk, definition) ==
    {m.control_id : m \in {r \in rows : r.initiative_fk = fk
                                         /\ r.policy_definition_fk = definition}}

RECURSIVE SumOfMapped(_, _, _)
SumOfMapped(rows, fk, states) ==
    IF states = <<>> THEN 0
    ELSE Cardinality(MappedControls(rows, fk, Head(states).policy_definition_id))
         + SumOfMapped(rows, fk, Tail(states))

\* C24: a successful policy-state import reports as processed the number
\* of entries the parser retained and as inserted the sum, over these
\* entries, of the number of controls the initiative maps to the entry's
\* policy definition (none for an unmapped definition), and every row it
\* writes is for a retained entry and a control mapped to its definition.
C24_ProcessedAndInserted ==
    [][Commits({"policy_states"})
       => LET a      == loc[1].args
              states == load_policy_states(a.source.bytes).value
              value  == ret'[1].result.value
              fk     == (CHOOSE r \in db.policy_initiatives :
                            r.initiative_id = a.name /\ r.scope = LowerScope(a.scope)).id
          IN  /\ value.rows_processed = Len(states)
              /\ value.rows_inserted = SumOfMapped(db.policy_mappings, fk, states)
              /\ \A r \in db'.policy_states \ db.policy_states :
                    /\ r.initiative_fk = fk
                    /\ r.control_id \in
                          MappedControls(db.policy_mappings, fk, r.policy_definition_fk)
                    /\ \E i \in 1..Len(states) :
                          /\ states[i].policy_definition_id = r.policy_definition_fk
                          /\ states[i].policy_assignment_id = r.assignment_id
                          /\ states[i].resource_id = r.resource_id]_vars

\* the snapshot with an unmapped and a partial entry was imported: three
\* entries processed, four rows inserted, two rows stored
C24_Witness ==
    /\ ret[1].call.op = "policy_states" /\ ret[1].result.ok
    /\ ret[1].result.value.rows_processed = 3
    /\ ret[1].result.value.rows_inserted = 4
    /\ Cardinality(db.policy_states) = 2

\* the stored datetime is the instant the timestamp text of an observation
\* denotes
Denotes(stored, text) ==
    \/ text \in {"T1", "T2"} /\ stored = text
    \/ text = "T1Z" /\ stored = "T1+00:00"

\* the last entry of the snapshot with the key of row r
LastObservation(states, r) ==
    LET hits == {i \in 1..Len(states) :
                   /\ states[i].policy_definition_id = r.policy_definition_fk
                   /\ states[i].policy_assignment_id = r.assignment_id
                   /\ states[i].resource_id = r.resource_id}
    IN  states[CHOOSE i \in hits : \A j \in hits : j <= i]

\* C25: policy_states holds at most one row per (initiative_fk,
\* control_id, policy_definition_fk, assignment_id, resource_id), and after
\* an import the row of every tuple of the snapshot carries the compliance
\* state and the timestamp of the last observation of the tuple in it.
C25_OneRowPerKeyLastWins ==
    /\ [](\A r1, r2 \in db.policy_states : StateKey(r1) = StateKey(r2) => r1 = r2)
    /\ [][Commits({"policy_states"})
          => LET states == load_policy_states(loc[1].args.source.bytes).value
             IN  \A r \in db'.policy_states \ db.policy_states :
                    LET last == LastObservation(states, r)
                    IN  /\ r.compliance_state = last.compliance_state
                        /\ Denotes(r.last_evaluated, last.last_evaluated)]_vars

\* the discovered files that are not recorded as applied, in order
RECURSIVE PendingNames(_, _)
PendingNames(migrations, names) ==
    IF migrations = <<>> THEN <<>>
    ELSE (IF Head(migrations).filename \in names THEN <<>> ELSE <<Head(migrations).filename>>)
         \o PendingNames(Tail(migrations), names)

\* each recorded file has one committed execution of its SQL, of the
\* content that has the recorded checksum, and nothing else was executed
CommittedOnce ==
    /\ \A r \in db.swft_schema_migrations :
          /\ Cardinality({c \in db.schema_changes : c.filename = r.filename}) = 1
          /\ \A c \in db.schema_changes :
                c.filename = r.filename => compute_sha256(c.sql) = r.checksum
    /\ \A c \in db.schema_changes : c.filename \in AppliedNames(db.swft_schema_migrations)

\* the applied set only grows, and a successful apply() returns the pending
\* files in order, leaves every discovered file applied and changes nothing
\* when no file is pending
AppliedOnly ==
    /\ AppliedNames(db.swft_schema_migrations) \subseteq AppliedNames(db'.swft_schema_migrations)
    /\ Commits({"migrate"})
       => LET pending == PendingNames(loc[1].document,
                                      AppliedNames(db.swft_schema_migrations))
          IN  /\ ret'[1].result.value = pending
              /\ \A i \in 1..Len(loc[1].document) :
                    loc[1].document[i].filename \in AppliedNames(db'.swft_schema_migrations)
              /\ pending = <<>> => db' = db

\* C26 as stated: the SQL of a migration file is executed at most once over
\* all apply() calls (so the tracking table's sequence, which counts the
\* recorded executions, never passes the number of migration files); a
\* second apply() executes nothing and returns an empty list; a recorded
\* filename stays recorded.
C26_ExecutedAtMostOnce ==
    /\ [](seq.swft_schema_migrations <= Cardinality(SqlFiles(fs)))
    /\ []CommittedOnce
    /\ [][AppliedOnly]_vars

\* C26: the SQL of a migration file is committed at most once: an apply()
\* that fails after it executed files rolls their SQL back with their
\* records, and a later apply() executes them again.  After a successful
\* apply() every discovered file is recorded, so that the next apply()
\* executes nothing and returns an empty list, and a recorded filename
\* stays recorded.
C26_CommittedAtMostOnce ==
    /\ []CommittedOnce
    /\ [][AppliedOnly]_vars

\* both files are applied and a second apply() that executed nothing is
\* about to return
C26_Witness ==
    /\ pc[1] = "commit" /\ loc[1].op = "migrate"
    /\ loc[1].applied = <<>>
    /\ Len(loc[1].document) = 2
    /\ Cardinality(db.schema_changes) = 2
    /\ ret[1].call.op = "migrate" /\ ret[1].result.ok

\* the applied checksum of the file the loop is at differs from the file
Mismatch ==
    /\ pc[1] = "mig_check"
    /\ loc[1].i <= Len(loc[1].document)
    /\ \E e \in loc[1].existing :
          /\ e.filename = loc[1].document[loc[1].i].filename
          /\ e.checksum # loc[1].document[loc[1].i].checksum

IsChecksumMismatch(result) == ~result.ok /\ result.what = "checksum mismatch"

\* C27: when apply() comes to a file whose recorded checksum differs from
\* the file, the call ends with the checksum mismatch error that names the
\* file; what the call executed and recorded until then belongs to files
\* that sort before it and is rolled back; and no apply() that discovered
\* such a file commits.
C27_ChecksumMismatchStops ==
    /\ [][Mismatch
          => /\ pc'[1] = "idle"
             /\ IsChecksumMismatch(ret'[1].result)
             /\ ret'[1].result.detail = loc[1].document[loc[1].i].filename
             /\ \A r \in tx[1].ins.schema_changes \cup tx[1].ins.swft_schema_migrations :
                   Less(r.filename, loc[1].document[loc[1].i].filename)
             /\ db' = db /\ tx'[1] = NoTx]_vars
    /\ [][Commits({"migrate"})
          => \A i \in 1..Len(loc[1].document) :
                \A r \in db.swft_schema_migrations :
                   r.filename = loc[1].document[i].filename
                      => r.checksum = loc[1].document[i].checksum]_vars

\* apply() has failed on the edited first file while the second file is
\* pending
C27_Witness ==
    /\ ret[1].call.op = "migrate"
    /\ IsChecksumMismatch(ret[1].result)
    /\ ret[1].result.detail = s_f1
    /\ [dir |-> MigrationsDir, filename |-> s_f2] \in DOMAIN fs
    /\ AppliedNames(db.swft_schema_migrations) = {s_f1}

\* C29: after a successful catalog import every control of the document
\* has one catalog_controls row, with the family, title, parameters and
\* objectives of the document and the id of the returned VersionRecord as
\* catalog_version_ref, also when a catalog of another name wrote the
\* control before; the rows of the other controls are as before.
C29_CatalogControlsUpserted ==
    [][Commits({"catalog"})
       => LET controls == load_catalog(loc[1].args.source.bytes).value.controls
              ids      == {controls[i].control_id : i \in 1..Len(controls)}
              ref      == ret'[1].result.value.version.id
          IN  /\ \A i \in 1..Len(controls) :
                    {r \in db'.catalog_controls : r.control_id = controls[i].control_id}
                    = {[control_id |-> controls[i].control_id,
                        family |-> controls[i].family,
                        title |-> controls[i].title,
                        parameters_json |-> controls[i].parameters,
                        assessment_objectives_json |-> controls[i].assessment_objectives,
                        catalog_version_ref |-> ref]}
              /\ {r \in db'.catalog_controls : r.control_id \notin ids}
                 = {r \in db.catalog_controls : r.control_id \notin ids}
              /\ \E v \in Registered(db'.version_registry, "catalog", loc[1].args.name) :
                    v.id = ref]_vars

\* a catalog is about to commit a control that a catalog of another name
\* wrote, while that catalog has a control the document does not have
C29_Witness ==
    /\ pc[1] = "commit" /\ loc[1].op = "catalog"
    /\ \E r \in tx[1].del.catalog_controls :
          /\ r.catalog_version_ref # loc[1].version.id
          /\ \E o \in db.catalog_controls :
                /\ o.control_id # r.control_id
                /\ o.catalog_version_ref = r.catalog_version_ref
                /\ o \notin tx[1].del.catalog_controls

\* C28: evidence ingestion and parameter writes never insert, update or
\* delete a row of version_registry, catalog_controls, baseline_profiles or
\* policy_initiatives, and the catalog, baseline, policy-initiative and
\* policy-state importers never insert, update or delete a row of
\* evidence_files or runs: no step of such a call changes the committed
\* rows of those tables or leaves a pending write on them.
AuthoritativeTables ==
    {"version_registry", "catalog_controls", "baseline_profiles", "policy_initiatives"}

EvidenceTables == {"evidence_files", "runs"}

Untouched(tables) ==
    \A t \in tables :
       /\ db'[t] = db[t]
       /\ tx'[1].ins[t] = {}
       /\ tx'[1].del[t] = {}

C28_WritersStayInTheirTables ==
    [][/\ loc[1].op \in {"ingest_file", "set_param"} => Untouched(AuthoritativeTables)
       /\ loc[1].op \in {"catalog", "baseline", "policy_initiative", "policy_states"}
             => Untouched(EvidenceTables)]_vars

C28_Witness ==
    /\ pc[1] = "commit"
    /\ loc[1].op = "ingest_file"
    /\ tx[1].ins.evidence_files # {}
    /\ db.version_registry # {}
    /\ db.catalog_controls # {}

\* the spelling of a control id
Spelling(id) ==
    CASE id = "AC-1"   -> <<"A", "C", "-", "1">>
      [] id = "AC-1.1" -> <<"A", "C", "-", "1", ".", "1">>
      [] id = "AC-2"   -> <<"A", "C", "-", "2">>
      [] id = "AC-3"   -> <<"A", "C", "-", "3">>

\* the ids of every with-ids list of every import of a profile
WithIds(bytes) ==
    LET imports == Get(Json(bytes).profile, "imports", <<>>)
    IN  UNION {UNION {Range(Get(Get(imports[i], "include_controls", <<>>)[j], "with_ids", <<>>)) :
                         j \in 1..Len(Get(imports[i], "include_controls", <<>>))} :
                  i \in 1..Len(imports)}

\* the ids of the top-level controls list of a profile
TopLevelIds(bytes) ==
    LET controls == Get(Json(bytes).profile, "controls", <<>>)
    IN  {controls[i].id : i \in {j \in 1..Len(controls) : "id" \in DOMAIN controls[j]}}

\* C31: for a profile without a `matching` selector load_profile returns
\* the control ids of all with-ids lists of all imports, each once and in
\* ascending lexicographic order; it returns the ids of the top-level
\* controls list instead only when the imports yield no id; and it fails
\* when the resulting set of ids is empty.
C31_ProfileControlIds ==
    [][(/\ pc[1] = "prof_load"
        /\ "profile" \in DOMAIN Json(loc[1].args.source.bytes)
        /\ ~HasMatching(loc[1].args.source.bytes))
       => LET b        == loc[1].args.source.bytes
              expected == IF WithIds(b) # {} THEN WithIds(b) ELSE TopLevelIds(b)
              ids      == loc'[1].document.control_ids
          IN  IF expected = {}
                 THEN /\ pc'[1] = "idle"
                      /\ ~ret'[1].result.ok
                      /\ ret'[1].result.type = "ValueError"
                      /\ ret'[1].result.what = "no control identifiers"
              ELSE /\ pc'[1] = "prof_pin"
                   /\ Range(ids) = expected
                   /\ \A i \in 1..Len(ids), j \in 1..Len(ids) :
                         i < j => Less(Spelling(ids[i]), Spelling(ids[j]))]_vars

\* a profile was parsed whose imports list an id twice and out of order and
\* which has a top-level control the imports do not name
C31_Witness ==
    /\ pc[1] = "prof_pin"
    /\ loc[1].args.source.bytes = "pDup"
    /\ loc[1].document.control_ids = <<"AC-1.1", "AC-2">>
    /\ TopLevelIds("pDup") \ WithIds("pDup") # {}

\* the control nodes of a list of controls with the family the claim gives
\* them, each node followed by its sub-controls
RECURSIVE NodesOfControls(_, _)
NodesOfControls(controls, family) ==
    IF controls = <<>> THEN <<>>
    ELSE <<[node |-> Head(controls), family |-> family]>>
            \o NodesOfControls(Get(Head(controls), "controls", <<>>), family)
            \o NodesOfControls(Tail(controls), family)

\* the control nodes of a list of groups: the family is the title of the
\* group, or the family of the parent group when the group has no title
RECURSIVE NodesOfGroups(_, _)
NodesOfGroups(groups, inherited) ==
    IF groups = <<>> THEN <<>>
    ELSE LET g      == Head(groups)
             family == IF Get(g, "title", None) # None THEN g.title ELSE inherited
         IN  NodesOfControls(Get(g, "controls", <<>>), family)
                \o NodesOfGroups(Get(g, "groups", <<>>), family)
                \o NodesOfGroups(Tail(groups), inherited)

NodesOf(catalog) ==
    NodesOfControls(Get(catalog, "controls", <<>>), None)
        \o NodesOfGroups(Get(catalog, "groups", <<>>), None)

\* what the claim requires of load_catalog for the catalogs in `among`
CatalogParse(among) ==
    (/\ pc[1] = "cat_load"
     /\ loc[1].args.source.bytes \in among
     /\ "catalog" \in DOMAIN Json(loc[1].args.source.bytes))
       => LET nodes    == NodesOf(Json(loc[1].args.source.bytes).catalog)
              controls == loc'[1].document.controls
          IN  IF \E i \in 1..Len(nodes) : "id" \notin DOMAIN nodes[i].node
                 THEN /\ pc'[1] = "idle"
                      /\ ~ret'[1].result.ok
                      /\ ret'[1].result.type = "ValueError"
                      /\ ret'[1].result.what = "control without id"
              ELSE /\ pc'[1] = "cat_pin"
                   /\ Len(controls) = Len(nodes)
                   /\ \A i \in 1..Len(nodes) :
                         /\ controls[i].control_id = nodes[i].node.id
                         /\ controls[i].family = nodes[i].family

\* C32: load_catalog emits one control per node of controls[], of
\* groups[].controls[] at any group depth and of their nested controls[];
\* the family of a control is the title of its enclosing group, a control
\* of a subgroup without title has the family of the parent group, a
\* sub-control has the family of its parent control; a node without id
\* makes the parse fail with the format error.
C32_OneControlPerNodeWithFamily ==
    [][CatalogParse({"cA", "cB", "cNoId", "cDeep", "cSub"})]_vars

\* a snapshot is a bare array, or an object with a `value` or `states` key
AcceptedShape(bytes) ==
    \/ IsList(bytes)
    \/ /\ ~IsStr(Json(bytes))
       /\ {"value", "states"} \cap DOMAIN Json(bytes) # {}

\* C33: load_policy_states accepts a bare array and an object with a
\* `value` or `states` array; for every other top-level shape, an object
\* with neither key included, it fails with the format error and yields no
\* state list.
C33_OtherShapesFail ==
    [][pc[1] = "pst_load"
       => IF AcceptedShape(loc[1].args.source.bytes)
             THEN pc'[1] = "connect"
             ELSE /\ pc'[1] = "idle"
                  /\ IsFormatError(ret'[1].result)]_vars

\* the project, the control and the parameter of a call are known
KnownParameter(a) ==
    /\ \E r \in db.projects : r.project_key = a.project
    /\ \E c \in db.catalog_controls :
          /\ c.control_id = a.control
          /\ \E i \in 1..Len(c.parameters_json) : ParamIdOf(c.parameters_json[i]) = a.param

\* what the claim requires of the end of a call of one of the paths `ops`
SetsParameter(ops) ==
    (Ends /\ loc[1].op \in ops)
       => LET a      == loc[1].args
              result == ret'[1].result
              rows   == {r \in db'.parameter_values :
                            /\ r.control_id = a.control
                            /\ r.param_id = a.param
                            /\ \E q \in db.projects :
                                  q.project_key = a.project /\ q.id = r.project_fk}
          IN  IF KnownParameter(a)
                 THEN /\ result.ok
                      /\ Cardinality(rows) = 1
                      /\ \A r \in rows : r.value = a.value
              ELSE /\ ~result.ok
                   /\ result.type = "ValueError"
                   /\ result.what \in {"project not found", "control not found in catalog",
                                       "parameter not found"}
                   /\ db' = db
                   /\ tx[1] = NoTx

\* C34: setting a parameter value for an existing project, a control of the
\* catalog and a parameter defined on that control completes without error
\* and leaves one parameter_values row for (project, control, param) with
\* the latest value; for an unknown project, control or parameter it fails
\* with the not-found error and writes no row; on the command-line path and
\* on the backend service path.
C34_SetParameterBothPaths == [][SetsParameter({"set_param", "set_parameter"})]_vars

\* the child rows of an ingestor
ChildTable(op) == IF op = "sbom" THEN "sbom_components" ELSE "trivy_findings"

\* C35: for any interleaving of two concurrent ingestions of byte-identical
\* SBOM (or Trivy) content, once both have committed, the child rows of the
\* shared evidence id number the parsed component (finding) count, not
\* twice that count.
C35_ConcurrentReingestKeepsCount ==
    (/\ \A p \in Procs : pc[p] = "idle" /\ ret[p].result.ok
     /\ ret[1].call.op \in {"sbom", "trivy"}
     /\ ret[2].call = ret[1].call)
       => /\ ret[1].result.value.evidence.id = ret[2].result.value.evidence.id
          /\ Cardinality(ChildRows(db[ChildTable(ret[1].call.op)],
                                   ret[1].result.value.evidence.id))
                = ret[1].result.value.count

\* C36: apply() is all-or-nothing: when it fails, on a checksum mismatch or
\* on a statement (the SQL of a migration included), the tracking table and
\* the schema are as before the call, also when pending migrations that
\* sort before the failing file were executed earlier in the call; nothing
\* is committed before the end of a call that succeeds.
C36_ApplyAllOrNothing ==
    [][(loc[1].op = "migrate" /\ ~Commits({"migrate"}))
       => /\ db' = db
          /\ pc'[1] = "idle" => (~ret'[1].result.ok /\ tx'[1] = NoTx)]_vars

\* apply() has executed and recorded a pending file and has come to a later
\* file whose recorded checksum differs
C36_Witness ==
    /\ Mismatch
    /\ tx[1].ins.schema_changes # {}
    /\ tx[1].ins.swft_schema_migrations # {}

\* the version_registry rows a policy_initiatives row may refer to
VersionOfInitiative(r) ==
    {v \in db.version_registry :
        v.id = r.initiative_version_ref /\ v.kind = "policy_initiative"
           /\ v.name = r.initiative_id}

\* an import is at the registry with a content other than the registered
\* one while the other scope of its name has an initiative
SecondScopeOtherContent ==
    /\ pc[1] = "ev_select" /\ loc[1].op = "policy_initiative"
    /\ \E v \in db.version_registry :
          /\ v.kind = "policy_initiative" /\ v.name = loc[1].args.name
          /\ v.content_hash # loc[1].ev.content_hash
    /\ \E r \in db.policy_initiatives :
          r.initiative_id = loc[1].args.name /\ r.scope # loc[1].args.scope

\* C37: every policy_initiatives row refers to the policy_initiative
\* VersionRecord of its own name; the registry key is (kind, name) without
\* the scope, so the commercial and the gov initiative of a name share one
\* version and content hash; and an import of another content for the
\* second scope of a name fails with the version conflict and leaves the
\* initiative of the first scope, its mappings and the definitions as they
\* were.
C37_ScopesShareOneVersion ==
    /\ [](\A r \in db.policy_initiatives :
             /\ VersionOfInitiative(r) # {}
             /\ \A q \in db.policy_initiatives :
                   q.initiative_id = r.initiative_id
                      => \A v \in VersionOfInitiative(r), w \in VersionOfInitiative(q) :
                            v.content_hash = w.content_hash)
    /\ [][SecondScopeOtherContent
          => /\ pc'[1] = "idle"
             /\ ~ret'[1].result.ok
             /\ ret'[1].result.type = "ValueError"
             /\ ret'[1].result.what = "already exists with hash"
             /\ db' = db /\ tx'[1] = NoTx]_vars

\* the gov initiative of a name is imported with its mappings, and the
\* import of another content for the commercial scope has failed
C37_Witness ==
    /\ pc[1] = "idle"
    /\ ret[1].call.op = "policy_initiative"
    /\ ret[1].call.args.scope = "commercial"
    /\ ~ret[1].result.ok /\ ret[1].result.what = "already exists with hash"
    /\ \E r \in db.policy_initiatives :
          /\ r.initiative_id = ret[1].call.args.name /\ r.scope = "gov"
          /\ \E m \in db.policy_mappings : m.initiative_fk = r.id
    /\ ~\E r \in db.policy_initiatives : r.scope = "commercial"

\* the rows of a table without their physical position
Columns(rows) == {[c \in DOMAIN r \ {"ctid"} |-> r[c]] : r \in rows}

\* the import that commits repeats the call that ended last, with the
\* snapshots in `among`
Reimports(among) ==
    /\ Commits({"policy_states"})
    /\ loc[1].args.source.bytes \in among
    /\ ret[1].call.op = "policy_states" /\ ret[1].result.ok
    /\ ret[1].call.args.name = loc[1].args.name
    /\ ret[1].call.args.scope = loc[1].args.scope
    /\ ret[1].call.args.source = loc[1].args.source

\* what the claim requires of the second import of a snapshot
SameAsOnce ==
    LET states == load_policy_states(loc[1].args.source.bytes).value
    IN  /\ Columns(db'.policy_states) = Columns(db.policy_states)
        /\ ret'[1].result.value = ret[1].result.value
        /\ \A r \in db'.policy_states :
              (\E i \in 1..Len(states) :
                  /\ states[i].policy_definition_id = r.policy_definition_fk
                  /\ states[i].policy_assignment_id = r.assignment_id
                  /\ states[i].resource_id = r.resource_id)
                 => Denotes(r.last_evaluated, LastObservation(states, r).last_evaluated)

\* C38: importing a policy-state snapshot a second time against the
\* unchanged initiative leaves the policy_states rows of the first import,
\* the last_evaluated of each being the timestamp its state entry carries
\* and not a value of the time of the import, and both calls report the
\* same processed and inserted counts.
C38_SnapshotReimportIdempotent ==
    [][Reimports({"q1", "q2", "q3", "q4"}) => SameAsOnce]_vars

\* the runs an evidence row is linked to
LinkedRuns(rows, e) ==
    {r \in rows.runs :
        \E l \in rows.run_evidence : l.evidence_fk = e.id /\ l.run_fk = r.id}

\* C39: in every reachable state the run_id of each evidence_files row
\* names a run the evidence is linked to in run_evidence, and links are
\* only added: when a content is ingested again under a second run the link
\* to the first run remains, so the evidence is linked to both runs while
\* its run_id names the latest.
C39_EvidenceRunLinked ==
    /\ [](\A e \in db.evidence_files :
             \E r \in LinkedRuns(db, e) : r.run_id = e.run_id)
    /\ [][/\ db.run_evidence \subseteq db'.run_evidence
          /\ \A p \in Procs :
                (pc[p] = "commit" /\ loc[p].op = "ingest_file"
                    /\ pc'[p] = "idle" /\ ret'[p].result.ok)
                   => \E e \in db'.evidence_files :
                         /\ e.id = ret'[p].result.value.id
                         /\ e.run_id = loc[p].args.run_id
                         /\ e.content_hash = loc[p].digest
                         /\ {r.run_id : r \in LinkedRuns(db, e)} \cup {e.run_id}
                               = {r.run_id : r \in LinkedRuns(db', e)}]_vars

\* a content ingested for the first run was ingested again for the second:
\* one evidence row, named after the second run and linked to both
C39_Witness ==
    /\ \A p \in Procs : pc[p] = "idle"
    /\ \E e \in db.evidence_files :
          /\ e.run_id = s_r2
          /\ {r.run_id : r \in LinkedRuns(db, e)} = {s_r1, s_r2}
    /\ Cardinality(db.evidence_files) = 1

\* the runs rows of the pair of a call, as its transaction sees them after
\* the step
RunsOfCall(p) ==
    {r \in db.runs \cup tx'[p].ins.runs :
        r.project_fk = loc[p].args.project.id /\ r.run_id = loc[p].args.run_id}

\* C40: for any interleaving of concurrent evidence ingestions for one
\* (project, run_id), runs holds one row for the pair, every ensure_run
\* returns the id of that row, and none ends with the 'Failed to ensure
\* run' error.
C40_EnsureRunReturnsTheRow ==
    /\ [](\A r1, r2 \in db.runs :
             (r1.project_fk = r2.project_fk /\ r1.run_id = r2.run_id) => r1 = r2)
    /\ [](\A p \in Procs :
             ~ret[p].result.ok => ret[p].result.what # "failed to ensure run")
    /\ [][\A p \in Procs :
             (pc[p] \in {"run_insert", "run_select"} /\ pc'[p] = "evi_upsert")
                => /\ Cardinality(RunsOfCall(p)) = 1
                   /\ \A r \in RunsOfCall(p) : r.id = loc'[p].fk]_vars

\* both callers are past ensure_run for one (project, run_id) at once, with
\* the id of the same runs row
C40_Witness ==
    /\ pc[1] = "evi_upsert" /\ pc[2] = "evi_upsert"
    /\ loc[1].args.run_id = loc[2].args.run_id
    /\ loc[1].fk = loc[2].fk
    /\ \E r \in db.runs : r.id = loc[1].fk /\ r.run_id = loc[1].args.run_id

====
